---- MODULE Spec2Model ----
(***************************************************************************)
(* Infralyze: the parse endpoint (src/app/api/parse/route.ts) and the type *)
(* helpers it imports.  A decoded JSON/YAML value (ParsedContent) is a     *)
(* tagged record; a JavaScript object is the sequence of its entries in    *)
(* Object.entries order, with pairwise distinct keys.                      *)
(***************************************************************************)
EXTENDS Integers, Sequences, FiniteSets, TLC

(***************************************************************************)
(* ParsedContent values (part_000 lines 3-9) and the exception marker.     *)
(***************************************************************************)
Undef == [t |-> "undef"]
Null == [t |-> "null"]
NaN == [t |-> "nan"]
Str(s) == [t |-> "str", s |-> s]
Num(n) == [t |-> "num", n |-> n]
Bool(b) == [t |-> "bool", b |-> b]
Arr(a) == [t |-> "arr", a |-> a]
Obj(e) == [t |-> "obj", e |-> e]
Ent(k, v) == [k |-> k, v |-> v]
EmptyObj == Obj(<<>>)

\* A TypeError raised by the handler (property access on null/undefined).
Thrown == [t |-> "throw"]

(***************************************************************************)
(* JavaScript primitives used by the handlers.                             *)
(***************************************************************************)
\* typeof
TypeOf(v) ==
  CASE v.t = "undef" -> "undefined"
    [] v.t = "str" -> "string"
    [] v.t \in {"num", "nan"} -> "number"
    [] v.t = "bool" -> "boolean"
    [] OTHER -> "object"

\* ToBoolean: undefined, null, "", 0, NaN and false are falsy.
Truthy(v) ==
  CASE v.t \in {"undef", "null", "nan"} -> FALSE
    [] v.t = "str" -> v.s # ""
    [] v.t = "num" -> v.n # 0
    [] v.t = "bool" -> v.b
    [] OTHER -> TRUE

\* a || b
JsOr(a, b) == IF Truthy(a) THEN a ELSE b

\* s || d on strings
StrOr(s, d) == IF s # "" THEN s ELSE d

\* Object.keys(o)
Keys(o) == [i \in 1..Len(o.e) |-> o.e[i].k]

\* o.k : the value under key k, undefined when the key is missing.
Get(o, k) ==
  IF o.t # "obj" THEN Undef
  ELSE LET idx == {i \in 1..Len(o.e) : o.e[i].k = k}
       IN IF idx = {} THEN Undef ELSE o.e[CHOOSE i \in idx : TRUE].v

\* One decimal digit as a string.
Digit(d) == SubSeq("0123456789", d + 1, d + 1)

\* String(n) for an integer n.
RECURSIVE NatToStr(_)
NatToStr(n) == IF n < 10 THEN Digit(n) ELSE NatToStr(n \div 10) \o Digit(n % 10)

NumToStr(n) == IF n < 0 THEN "-" \o NatToStr(0 - n) ELSE NatToStr(n)

Char(s, i) == SubSeq(s, i, i)

WhiteSpace == {" ", "\t", "\n", "\r"}

\* String.prototype.trim
RECURSIVE TrimStart(_)
TrimStart(s) ==
  IF Len(s) > 0 /\ Char(s, 1) \in WhiteSpace THEN TrimStart(SubSeq(s, 2, Len(s))) ELSE s

RECURSIVE TrimEnd(_)
TrimEnd(s) ==
  IF Len(s) > 0 /\ Char(s, Len(s)) \in WhiteSpace THEN TrimEnd(SubSeq(s, 1, Len(s) - 1)) ELSE s

Trim(s) == TrimEnd(TrimStart(s))

DigitChars == {"0", "1", "2", "3", "4", "5", "6", "7", "8", "9"}

DigitVal(c) == CHOOSE d \in 0..9 : Digit(d) = c

IsDigits(s) == Len(s) > 0 /\ \A i \in 1..Len(s) : Char(s, i) \in DigitChars

RECURSIVE DigitsVal(_)
DigitsVal(s) ==
  IF Len(s) = 0 THEN 0
  ELSE 10 * DigitsVal(SubSeq(s, 1, Len(s) - 1)) + DigitVal(Char(s, Len(s)))

\* Number(s) on strings: white space is trimmed, the empty string is 0, an
\* optionally signed run of decimal digits is its value, anything else NaN.
\* (Fractions, exponents and radix prefixes are outside the modelled inputs.)
StringToNumber(s) ==
  LET u == Trim(s)
      body == IF Len(u) > 0 /\ Char(u, 1) \in {"+", "-"} THEN SubSeq(u, 2, Len(u)) ELSE u
  IN IF u = "" THEN Num(0)
     ELSE IF ~IsDigits(body) THEN NaN
     ELSE IF Char(u, 1) = "-" THEN Num(0 - DigitsVal(body))
     ELSE Num(DigitsVal(body))

(***************************************************************************)
(* route.ts helpers                                                        *)
(***************************************************************************)
\* variant: only strings are kept, numbers and booleans are not stringified
parseContentToString_StringsOnly(content) ==
  IF content.t = "str" THEN content.s ELSE ""

parseContentToString(content) ==
  CASE content.t \in {"undef", "null"} -> ""
    [] content.t = "str" -> content.s
    [] content.t = "num" -> NumToStr(content.n)
    [] content.t = "nan" -> "NaN"
    [] content.t = "bool" -> IF content.b THEN "true" ELSE "false"
    [] OTHER -> ""

\* variant: a numeric string is not parsed
parseContentToNumber_NumbersOnly(content) ==
  IF content.t \in {"num", "nan"} THEN content ELSE Undef

parseContentToNumber(content) ==
  CASE content.t \in {"undef", "null"} -> Undef
    [] content.t \in {"num", "nan"} -> content
    [] content.t = "str" ->
         LET num == StringToNumber(content.s)
         IN IF num.t = "nan" THEN Undef ELSE num
    [] OTHER -> Undef

\* variant: the null check is missing
isObjectContent_NullPasses(content) ==
  TypeOf(content) = "object" /\ content.t # "arr"

isObjectContent(content) ==
  TypeOf(content) = "object" /\ content.t # "null" /\ content.t # "arr"

isArrayContent(content) == content.t = "arr"

(***************************************************************************)
(* normalizeToInfraData (route.ts 398-520).  The canonical result is a     *)
(* function whose domain holds the sections that were assigned; a service, *)
(* a database and an environment entry are records of strings (port is a   *)
(* number value or undefined).                                             *)
(***************************************************************************)
\* result.k, undefined when the section was never assigned
Field(r, k) == IF k \in DOMAIN r THEN r[k] ELSE Undef

\* !result.k : an assigned section is an array or an object, hence truthy
Missing(r, k) == k \notin DOMAIN r

EmptyResult == [k \in {} |-> Undef]

\* A property read on a value that is null or undefined raises a TypeError.
Derefs(item) == item.t \notin {"undef", "null"}

\* the expression under `name:` on the sequence paths (lines 411, 429, 460)
AliasName(item) ==
  parseContentToString(JsOr(Get(item, "name"), Get(item, "id")))

\* the object literal of lines 410-417, 428-435, 442-449, 502-509
ServiceRecord(name, serviceItem, defaultType) ==
  [name |-> name,
   type |-> StrOr(parseContentToString(
              JsOr(Get(serviceItem, "type"), Get(serviceItem, "kind"))), defaultType),
   runtime |-> parseContentToString(
              JsOr(JsOr(Get(serviceItem, "runtime"), Get(serviceItem, "image")),
                   Get(serviceItem, "version"))),
   buildCommand |-> parseContentToString(
              JsOr(Get(serviceItem, "buildCommand"), Get(serviceItem, "build"))),
   startCommand |-> parseContentToString(
              JsOr(JsOr(Get(serviceItem, "startCommand"), Get(serviceItem, "command")),
                   Get(serviceItem, "cmd"))),
   rootDir |-> parseContentToString(
              JsOr(JsOr(Get(serviceItem, "rootDir"), Get(serviceItem, "workingDir")),
                   Get(serviceItem, "path")))]

\* the object literal of lines 459-465, 471-477
DatabaseRecord(name, dbItem) ==
  [name |-> name,
   type |-> StrOr(parseContentToString(
              JsOr(Get(dbItem, "type"), Get(dbItem, "engine"))), "database"),
   version |-> parseContentToString(Get(dbItem, "version")),
   host |-> parseContentToString(JsOr(Get(dbItem, "host"), Get(dbItem, "hostname"))),
   port |-> parseContentToNumber(Get(dbItem, "port"))]

\* variant: the default name uses the 0-based index
ArrayRootService_ZeroBased(item, index) ==
  LET serviceItem == IF isObjectContent(item) THEN item ELSE EmptyObj
  IN IF ~Derefs(serviceItem) THEN Thrown
     ELSE ServiceRecord(StrOr(AliasName(serviceItem), "Service " \o NumToStr(index)),
                        serviceItem, "unknown")

\* callback of data.map at lines 408-418; index is 0-based
ArrayRootService(item, index) ==
  LET serviceItem == IF isObjectContent(item) THEN item ELSE EmptyObj
  IN IF ~Derefs(serviceItem) THEN Thrown
     ELSE ServiceRecord(StrOr(AliasName(serviceItem), "Service " \o NumToStr(index + 1)),
                        serviceItem, "unknown")

\* callback of services.map at lines 426-436
ListedService(svc) ==
  LET serviceItem == IF isObjectContent(svc) THEN svc ELSE EmptyObj
  IN IF ~Derefs(serviceItem) THEN Thrown
     ELSE ServiceRecord(StrOr(AliasName(serviceItem), "Unknown Service"),
                        serviceItem, "service")

\* variant: a name inside the entry wins over the entry's key
KeyedService_InnerName(key, value) ==
  LET serviceItem == IF isObjectContent(value) THEN value ELSE EmptyObj
  IN IF ~Derefs(serviceItem) THEN Thrown
     ELSE ServiceRecord(StrOr(AliasName(serviceItem), key), serviceItem, "service")

\* callback of Object.entries(servicesObj).map at lines 440-450
KeyedService(key, value) ==
  LET serviceItem == IF isObjectContent(value) THEN value ELSE EmptyObj
  IN IF ~Derefs(serviceItem) THEN Thrown
     ELSE ServiceRecord(key, serviceItem, "service")

\* callback of databases.map at lines 457-466
ListedDatabase(db) ==
  LET dbItem == IF isObjectContent(db) THEN db ELSE EmptyObj
  IN IF ~Derefs(dbItem) THEN Thrown
     ELSE DatabaseRecord(StrOr(AliasName(dbItem), "Unknown Database"), dbItem)

\* callback of Object.entries(databasesObj).map at lines 469-478
KeyedDatabase(key, value) ==
  LET dbItem == IF isObjectContent(value) THEN value ELSE EmptyObj
  IN IF ~Derefs(dbItem) THEN Thrown
     ELSE DatabaseRecord(key, dbItem)

\* A callback that raised makes the whole map raise.
Raised(seq) == \E i \in 1..Len(seq) : seq[i] = Thrown

\* dataObj.services || dataObj.applications || dataObj.apps
ServicesSource(dataObj) ==
  JsOr(JsOr(Get(dataObj, "services"), Get(dataObj, "applications")), Get(dataObj, "apps"))

\* dataObj.databases || dataObj.db || dataObj.data
DatabasesSource(dataObj) ==
  JsOr(JsOr(Get(dataObj, "databases"), Get(dataObj, "db")), Get(dataObj, "data"))

\* dataObj.environment || dataObj.env || dataObj.envVars || dataObj.variables
EnvironmentSource(dataObj) ==
  JsOr(JsOr(JsOr(Get(dataObj, "environment"), Get(dataObj, "env")),
            Get(dataObj, "envVars")), Get(dataObj, "variables"))

\* lines 423-452: the services section of an object root
ServicesStep(dataObj, result) ==
  LET services == ServicesSource(dataObj)
  IN IF ~Truthy(services) THEN result
     ELSE IF isArrayContent(services)
       THEN ("services" :> [i \in 1..Len(services.a) |-> ListedService(services.a[i])]) @@ result
     ELSE IF isObjectContent(services)
       THEN ("services" :> [i \in 1..Len(services.e) |->
                              KeyedService(services.e[i].k, services.e[i].v)]) @@ result
     ELSE result

\* lines 454-480: the databases section of an object root
DatabasesStep(dataObj, result) ==
  LET databases == DatabasesSource(dataObj)
  IN IF ~Truthy(databases) THEN result
     ELSE IF isArrayContent(databases)
       THEN ("databases" :> [i \in 1..Len(databases.a) |-> ListedDatabase(databases.a[i])]) @@ result
     ELSE IF isObjectContent(databases)
       THEN ("databases" :> [i \in 1..Len(databases.e) |->
                              KeyedDatabase(databases.e[i].k, databases.e[i].v)]) @@ result
     ELSE result

\* lines 482-492: the environment section of an object root
EnvironmentStep(dataObj, result) ==
  LET env == EnvironmentSource(dataObj)
  IN IF ~Truthy(env) THEN result
     ELSE IF isObjectContent(env)
       THEN ("environment" :> [i \in 1..Len(env.e) |->
                                 Ent(env.e[i].k, parseContentToString(env.e[i].v))]) @@ result
     ELSE result

\* variant: the fallback looks at the services section only
FallbackGuard_ServicesOnly(result) == Missing(result, "services")

\* the guard of line 495
FallbackGuard(result) ==
  Missing(result, "services") /\ Missing(result, "databases") /\ Missing(result, "environment")

\* the push of lines 501-509
FallbackService(key, value) ==
  IF ~Derefs(value) THEN Thrown ELSE ServiceRecord(key, value, "component")

\* lines 497-511: possibleServices, one entry per top-level key holding an object
RECURSIVE PossibleServices(_)
PossibleServices(entries) ==
  IF Len(entries) = 0 THEN <<>>
  ELSE LET e == Head(entries)
       IN (IF isObjectContent(e.v) THEN <<FallbackService(e.k, e.v)>> ELSE <<>>)
          \o PossibleServices(Tail(entries))

\* lines 494-516
FallbackStep(dataObj, result) ==
  IF ~FallbackGuard(result) THEN result
  ELSE LET possibleServices == PossibleServices(dataObj.e)
       IN IF Len(possibleServices) > 0
            THEN ("services" :> possibleServices) @@ result
            ELSE result

\* An exception in any section aborts the call.
Outcome(result) ==
  IF \E k \in (DOMAIN result) \ {"environment"} : Raised(result[k]) THEN Thrown ELSE result

normalizeToInfraData(data) ==
  IF ~Truthy(data) \/ TypeOf(data) # "object" THEN EmptyResult
  ELSE IF isArrayContent(data)
    THEN Outcome("services" :> [i \in 1..Len(data.a) |-> ArrayRootService(data.a[i], i - 1)])
  ELSE IF isObjectContent(data)
    THEN Outcome(FallbackStep(data,
           EnvironmentStep(data, DatabasesStep(data, ServicesStep(data, EmptyResult)))))
  ELSE EmptyResult

(***************************************************************************)
(* The canonical value read back as a decoded tree: what JSON.stringify    *)
(* (fileUtils.ts 31, NextResponse.json) followed by JSON.parse yields.     *)
(* An undefined port is dropped and NaN is written as null.                *)
(***************************************************************************)
ServiceTree(svc) ==
  Obj(<<Ent("name", Str(svc.name)), Ent("type", Str(svc.type)),
        Ent("runtime", Str(svc.runtime)), Ent("buildCommand", Str(svc.buildCommand)),
        Ent("startCommand", Str(svc.startCommand)), Ent("rootDir", Str(svc.rootDir))>>)

DatabaseTree(db) ==
  Obj(<<Ent("name", Str(db.name)), Ent("type", Str(db.type)),
        Ent("version", Str(db.version)), Ent("host", Str(db.host))>>
      \o (CASE db.port.t = "undef" -> <<>>
            [] db.port.t = "nan" -> <<Ent("port", Null)>>
            [] OTHER -> <<Ent("port", db.port)>>))

CanonicalTree(r) ==
  Obj((IF "services" \in DOMAIN r
         THEN <<Ent("services", Arr([i \in 1..Len(r.services) |-> ServiceTree(r.services[i])]))>>
         ELSE <<>>)
      \o (IF "databases" \in DOMAIN r
         THEN <<Ent("databases", Arr([i \in 1..Len(r.databases) |-> DatabaseTree(r.databases[i])]))>>
         ELSE <<>>)
      \o (IF "environment" \in DOMAIN r
         THEN <<Ent("environment", Obj([i \in 1..Len(r.environment) |->
                    Ent(r.environment[i].k, Str(r.environment[i].v))]))>>
         ELSE <<>>))

(***************************************************************************)
(* String helpers of the endpoint.                                         *)
(***************************************************************************)
StartsWith(s, pre) == Len(s) >= Len(pre) /\ SubSeq(s, 1, Len(pre)) = pre

EndsWith(s, suf) == Len(s) >= Len(suf) /\ SubSeq(s, Len(s) - Len(suf) + 1, Len(s)) = suf

\* String.prototype.includes
Includes(s, sub) ==
  \E i \in 1..(Len(s) - Len(sub) + 1) : SubSeq(s, i, i + Len(sub) - 1) = sub

\* Array.prototype.includes
Has(seq, x) == \E i \in 1..Len(seq) : seq[i] = x

UpperChars == "ABCDEFGHIJKLMNOPQRSTUVWXYZ"
LowerChars == "abcdefghijklmnopqrstuvwxyz"

LowerChar(c) ==
  IF \E i \in 1..26 : Char(UpperChars, i) = c
    THEN Char(LowerChars, CHOOSE i \in 1..26 : Char(UpperChars, i) = c)
    ELSE c

\* String.prototype.toLowerCase
RECURSIVE ToLowerCase(_)
ToLowerCase(s) ==
  IF Len(s) = 0 THEN "" ELSE LowerChar(Char(s, 1)) \o ToLowerCase(SubSeq(s, 2, Len(s)))

\* String.prototype.slice(0, n)
Slice0(s, n) == IF Len(s) <= n THEN s ELSE SubSeq(s, 1, n)

\* Array.prototype.join
RECURSIVE Join(_, _)
Join(seq, sep) ==
  IF Len(seq) = 0 THEN ""
  ELSE IF Len(seq) = 1 THEN seq[1]
  ELSE seq[1] \o sep \o Join(Tail(seq), sep)

IsLetter(c) ==
  \E i \in 1..26 : Char(UpperChars, i) = c \/ Char(LowerChars, i) = c

\* /^[a-zA-Z_][a-zA-Z0-9_]*:\s/
KeyLinePattern(s) ==
  \E n \in 1..(Len(s) - 2) :
    /\ IsLetter(Char(s, 1)) \/ Char(s, 1) = "_"
    /\ \A i \in 2..n : IsLetter(Char(s, i)) \/ Char(s, i) = "_" \/ Char(s, i) \in DigitChars
    /\ Char(s, n + 1) = ":"
    /\ Char(s, n + 2) \in WhiteSpace

\* /^\s*-\s/
SequenceItemPattern(s) ==
  \E n \in 0..(Len(s) - 2) :
    /\ \A i \in 1..n : Char(s, i) \in WhiteSpace
    /\ Char(s, n + 1) = "-"
    /\ Char(s, n + 2) \in WhiteSpace

\* variant: the content is inspected before the extension
detectContentType_ContentFirst(content, filename) ==
  LET trimmedContent == Trim(content)
      lowerFilename == ToLowerCase(filename)
  IN IF StartsWith(trimmedContent, "{") /\ EndsWith(trimmedContent, "}") THEN "json"
     ELSE IF StartsWith(trimmedContent, "[") /\ EndsWith(trimmedContent, "]") THEN "json"
     ELSE IF EndsWith(lowerFilename, ".json") THEN "json"
     ELSE IF EndsWith(lowerFilename, ".yaml") \/ EndsWith(lowerFilename, ".yml") THEN "yaml"
     ELSE IF \/ Includes(trimmedContent, "---")
             \/ KeyLinePattern(trimmedContent)
             \/ SequenceItemPattern(trimmedContent) THEN "yaml"
     ELSE "unknown"

\* variant: the content is inspected untrimmed
detectContentType_Untrimmed(content, filename) ==
  LET lowerFilename == ToLowerCase(filename)
  IN IF EndsWith(lowerFilename, ".json") THEN "json"
     ELSE IF EndsWith(lowerFilename, ".yaml") \/ EndsWith(lowerFilename, ".yml") THEN "yaml"
     ELSE IF StartsWith(content, "{") /\ EndsWith(content, "}") THEN "json"
     ELSE IF StartsWith(content, "[") /\ EndsWith(content, "]") THEN "json"
     ELSE IF \/ Includes(content, "---")
             \/ KeyLinePattern(content)
             \/ SequenceItemPattern(content) THEN "yaml"
     ELSE "unknown"

\* route.ts 333-353
detectContentType(content, filename) ==
  LET trimmedContent == Trim(content)
      lowerFilename == ToLowerCase(filename)
  IN IF EndsWith(lowerFilename, ".json") THEN "json"
     ELSE IF EndsWith(lowerFilename, ".yaml") \/ EndsWith(lowerFilename, ".yml") THEN "yaml"
     ELSE IF StartsWith(trimmedContent, "{") /\ EndsWith(trimmedContent, "}") THEN "json"
     ELSE IF StartsWith(trimmedContent, "[") /\ EndsWith(trimmedContent, "]") THEN "json"
     ELSE IF \/ Includes(trimmedContent, "---")
             \/ KeyLinePattern(trimmedContent)
             \/ SequenceItemPattern(trimmedContent) THEN "yaml"
     ELSE "unknown"

(***************************************************************************)
(* validateInfraStructure (part_000 114-211).  A ValidationResult is a     *)
(* record; detectedFormat is a field only on the paths that assign it.     *)
(***************************************************************************)
infraKeys == <<"services", "applications", "apps", "components", "containers">>
dbKeys == <<"databases", "db", "data", "storage">>
configKeys == <<"environment", "env", "config", "variables">>
k8sKeys == <<"apiVersion", "kind", "metadata", "spec">>
dockerKeys == <<"version", "services", "volumes", "networks">>
tfKeys == <<"resource", "provider", "variable", "output">>

\* tags.some(key => keys.includes(key))
SomeKey(tags, keys) == \E i \in 1..Len(tags) : Has(keys, tags[i])

IsK8s(obj) == SomeKey(k8sKeys, Keys(obj))
IsDocker(obj) == SomeKey(dockerKeys, Keys(obj)) /\ Truthy(Get(obj, "services"))
IsTerraform(obj) == SomeKey(tfKeys, Keys(obj))
IsInfra(obj) == SomeKey(infraKeys, Keys(obj))
IsDb(obj) == SomeKey(dbKeys, Keys(obj))
IsConfig(obj) == SomeKey(configKeys, Keys(obj))

When(cond, x) == IF cond THEN <<x>> ELSE <<>>
Score(cond, n) == IF cond THEN n ELSE 0

\* variant: a manifest key short-circuits the remaining rules
Matches_ManifestOnly(obj) ==
  IF IsK8s(obj) THEN 3
  ELSE Score(IsDocker(obj), 3) + Score(IsTerraform(obj), 2)
       + Score(IsInfra(obj), 2) + Score(IsDb(obj), 1) + Score(IsConfig(obj), 1)

\* lines 145-183: the accumulated score
Matches(obj) ==
  Score(IsK8s(obj), 3) + Score(IsDocker(obj), 3) + Score(IsTerraform(obj), 2)
  + Score(IsInfra(obj), 2) + Score(IsDb(obj), 1) + Score(IsConfig(obj), 1)

DetectedFormats(obj) ==
  When(IsK8s(obj), "Kubernetes") \o When(IsDocker(obj), "Docker Compose")
  \o When(IsTerraform(obj), "Terraform")

PatternSuggestions(obj) ==
  When(IsK8s(obj), "Kubernetes manifest detected - extracting container and service information")
  \o When(IsDocker(obj), "Docker Compose file detected - excellent structure for multi-service applications")
  \o When(IsTerraform(obj), "Terraform configuration detected - extracting infrastructure resources")
  \o When(IsInfra(obj), "Service definitions found - structure looks good")
  \o When(IsDb(obj), "Database configurations detected")
  \o When(IsConfig(obj), "Environment variables found")

\* lines 201-208 (the warning sign that opens the second text is left out)
StructureSuggestions(obj) ==
  When(Len(Keys(obj)) > 10, "Large configuration detected - consider organizing into sections")
  \o When(\E i \in 1..Len(obj.e) :
            \/ Includes(obj.e[i].k, "password")
            \/ Includes(obj.e[i].k, "secret")
            \/ Includes(obj.e[i].k, "key"),
          "Potential sensitive data detected - ensure secrets are properly managed")

\* variant: the thresholds are exclusive
Confidence_Exclusive(matches) ==
  IF matches > 3 THEN "high" ELSE IF matches > 1 THEN "medium" ELSE "low"

\* lines 186-199: result.confidence
Confidence(matches) ==
  IF matches >= 3 THEN "high" ELSE IF matches >= 1 THEN "medium" ELSE "low"

\* lines 189, 193, 197: result.detectedFormat
DetectedFormat(matches, detectedFormats) ==
  IF matches >= 3 THEN Join(detectedFormats, " + ")
  ELSE IF matches >= 1
    THEN IF Len(detectedFormats) > 0 THEN Join(detectedFormats, " + ") ELSE "Generic Config"
  ELSE "Unknown Format"

validateInfraStructure(data) ==
  IF ~Truthy(data) \/ TypeOf(data) # "object"
    THEN [isValid |-> FALSE, confidence |-> "low",
          suggestions |-> <<"File should contain a valid JSON or YAML object structure">>]
  ELSE IF data.t = "arr"
    THEN [isValid |-> TRUE, confidence |-> "medium", detectedFormat |-> "Service Array",
          suggestions |-> <<"Detected array of services - consider wrapping in a \"services\" key for better organization">>]
  ELSE LET matches == Matches(data)
           detectedFormats == DetectedFormats(data)
       IN [isValid |-> TRUE,
           confidence |-> Confidence(matches),
           detectedFormat |-> DetectedFormat(matches, detectedFormats),
           suggestions |-> PatternSuggestions(data)
             \o When(matches < 1, "No standard infrastructure patterns detected, but will attempt to extract any meaningful data")
             \o StructureSuggestions(data)]

\* part_000 303-329
quickValidateInfraStructure(data) ==
  IF ~Truthy(data) \/ TypeOf(data) # "object"
    THEN [isValid |-> FALSE, confidence |-> "low", detectedFormat |-> Undef]
  ELSE IF data.t = "arr"
    THEN [isValid |-> TRUE, confidence |-> "medium", detectedFormat |-> Str("Service Array")]
  ELSE LET keys == Keys(data)
       IN IF Has(keys, "apiVersion") /\ Has(keys, "kind")
            THEN [isValid |-> TRUE, confidence |-> "high", detectedFormat |-> Str("Kubernetes")]
          ELSE IF Has(keys, "services") /\ Has(keys, "version")
            THEN [isValid |-> TRUE, confidence |-> "high",
                  detectedFormat |-> Str("Docker Compose")]
          ELSE IF \E i \in 1..Len(keys) : Has(<<"services", "applications", "apps">>, keys[i])
            THEN [isValid |-> TRUE, confidence |-> "medium",
                  detectedFormat |-> Str("Service Config")]
          ELSE [isValid |-> TRUE, confidence |-> "low", detectedFormat |-> Str("Generic Config")]

\* the final value of the local `matches` (0 on the early returns)
MatchesOf(data) == IF isObjectContent(data) THEN Matches(data) ELSE 0

\* the call inside the try block: the classifier's result, or the exception
\* when it raises (part_000 itself has no raising statement; `throws` stands
\* for a failure inside the call)
TryValidate(data, throws) == IF throws THEN Thrown ELSE validateInfraStructure(data)

\* variant: the catch block answers with an invalid result
safeValidateInfraStructure_CatchInvalid(data, throws) ==
  IF ~Truthy(data) THEN Null
  ELSE LET outcome == TryValidate(data, throws)
       IN IF outcome = Thrown
            THEN [isValid |-> FALSE, confidence |-> "low", suggestions |-> <<>>]
          ELSE outcome

\* route.ts 377-385
safeValidateInfraStructure(data, throws) ==
  IF ~Truthy(data) THEN Null
  ELSE LET outcome == TryValidate(data, throws)
       IN IF outcome = Thrown THEN Null ELSE outcome

(***************************************************************************)
(* extractConfigMetadata (part_000 227-295).  analyzeObject walks the tree *)
(* depth first; each accumulator of the walk is one recursive operator.    *)
(***************************************************************************)
RECURSIVE Sum(_)
Sum(seq) == IF Len(seq) = 0 THEN 0 ELSE Head(seq) + Sum(Tail(seq))

RECURSIVE Flatten(_)
Flatten(seqs) == IF Len(seqs) = 0 THEN <<>> ELSE Head(seqs) \o Flatten(Tail(seqs))

\* lines 244-246 and 248-250: metadata.totalProperties after analyzeObject(obj)
RECURSIVE TotalProperties(_)
TotalProperties(obj) ==
  IF obj.t = "arr"
    THEN Len(obj.a) + Sum([i \in 1..Len(obj.a) |-> TotalProperties(obj.a[i])])
  ELSE IF obj.t = "obj"
    THEN Len(obj.e) + Sum([i \in 1..Len(obj.e) |-> TotalProperties(obj.e[i].v)])
  ELSE 0

\* lines 252-254: whether analyzeObject(obj, depth) sets hasNestedStructures
RECURSIVE SetsNested(_, _)
SetsNested(obj, depth) ==
  IF obj.t = "arr"
    THEN \E i \in 1..Len(obj.a) : SetsNested(obj.a[i], depth + 1)
  ELSE IF obj.t = "obj"
    THEN depth > 0 \/ \E i \in 1..Len(obj.e) : SetsNested(obj.e[i].v, depth + 1)
  ELSE FALSE

\* lines 259-265: the issues pushed for one property
PropertyIssues(key, value) ==
  When(Includes(ToLowerCase(key), "password") /\ value.t = "str" /\ Len(value.s) > 0,
       "Plaintext password found in property: " \o key)
  \o When(Includes(ToLowerCase(key), "secret") /\ value.t = "str" /\ Len(value.s) > 0,
          "Plaintext secret found in property: " \o key)

\* metadata.potentialIssues after analyzeObject(obj), in the order pushed
RECURSIVE PotentialIssues(_)
PotentialIssues(obj) ==
  IF obj.t = "arr"
    THEN Flatten([i \in 1..Len(obj.a) |-> PotentialIssues(obj.a[i])])
  ELSE IF obj.t = "obj"
    THEN Flatten([i \in 1..Len(obj.e) |->
                    PropertyIssues(obj.e[i].k, obj.e[i].v) \o PotentialIssues(obj.e[i].v)])
  ELSE <<>>

\* variant: the thresholds are inclusive
EstimatedComplexity_Inclusive(totalProperties, hasNestedStructures) ==
  IF totalProperties >= 50 \/ (hasNestedStructures /\ totalProperties >= 20) THEN "complex"
  ELSE IF totalProperties >= 15 \/ hasNestedStructures THEN "moderate"
  ELSE "simple"

\* lines 275-281
EstimatedComplexity(totalProperties, hasNestedStructures) ==
  IF totalProperties > 50 \/ (hasNestedStructures /\ totalProperties > 20) THEN "complex"
  ELSE IF totalProperties > 15 \/ hasNestedStructures THEN "moderate"
  ELSE "simple"

\* lines 275-292
Recommendations(totalProperties, hasNestedStructures, potentialIssues) ==
  LET complexity == EstimatedComplexity(totalProperties, hasNestedStructures)
  IN When(complexity = "complex",
          "Consider breaking down large configurations into smaller, focused files")
     \o When(complexity = "moderate", "Configuration structure looks well-organized")
     \o (IF \E i \in 1..Len(potentialIssues) :
               Includes(potentialIssues[i], "password") \/ Includes(potentialIssues[i], "secret")
           THEN <<"Use environment variables or secret management systems for sensitive data",
                  "Consider using .env files or external secret stores">>
         ELSE <<>>)
     \o When(~hasNestedStructures /\ totalProperties > 10,
             "Consider organizing properties into logical groups")

\* part_000 227-295
extractConfigMetadata(data) ==
  IF ~Truthy(data) \/ TypeOf(data) # "object"
    THEN [totalProperties |-> 0, hasNestedStructures |-> FALSE,
          estimatedComplexity |-> "simple",
          potentialIssues |-> <<"Configuration is not a structured object">>,
          recommendations |-> <<>>]
  ELSE LET totalProperties == TotalProperties(data)
           hasNestedStructures == SetsNested(data, 0)
           potentialIssues == PotentialIssues(data)
       IN [totalProperties |-> totalProperties,
           hasNestedStructures |-> hasNestedStructures,
           estimatedComplexity |-> EstimatedComplexity(totalProperties, hasNestedStructures),
           potentialIssues |-> potentialIssues,
           recommendations |->
             Recommendations(totalProperties, hasNestedStructures, potentialIssues)]

(***************************************************************************)
(* makeMermaidDiagram (components/InfraDiagram.tsx 71-91) over a canonical *)
(* value: the lines pushed, in order, and their join.                      *)
(***************************************************************************)
\* line 75
ServiceNode(svc, i) ==
  "  svc" \o NatToStr(i) \o "[\"" \o StrOr(svc.name, "Service") \o "\\n(" \o svc.runtime \o ")\"]"

\* lines 80-83: the node of one database and the edge guarded by services[0]
DatabaseLines(data, db, j) ==
  <<"  db" \o NatToStr(j) \o "[(DB: " \o StrOr(db.name, "Database") \o ")]">>
  \o When("services" \in DOMAIN data /\ Len(Field(data, "services")) > 0,
          "  svc0 --> db" \o NatToStr(j))

\* lines 72-89: the local `lines` when the function returns
DiagramLines(data) ==
  <<"graph TD">>
  \o (IF "services" \in DOMAIN data
        THEN [i \in 1..Len(data.services) |-> ServiceNode(data.services[i], i - 1)]
      ELSE <<>>)
  \o (IF "databases" \in DOMAIN data
        THEN Flatten([j \in 1..Len(data.databases) |->
                        DatabaseLines(data, data.databases[j], j - 1)])
      ELSE <<>>)
  \o (IF "environment" \in DOMAIN data
        THEN <<"  env[/\"Env Vars\"/]", "  svc0 --> env">>
      ELSE <<>>)

\* InfraDiagram.tsx 71-91
makeMermaidDiagram(data) == Join(DiagramLines(data), "\n")

(***************************************************************************)
(* generateInfraSummary (utils/fileUtils.ts 71-117): the summary is the    *)
(* object literal of lines 108-115, its details already arrays.            *)
(***************************************************************************)
\* Array.from(new Set(...)): the members in insertion order, once each
RECURSIVE Distinct(_)
Distinct(seq) ==
  IF Len(seq) = 0 THEN <<>>
  ELSE LET front == Distinct(SubSeq(seq, 1, Len(seq) - 1))
           last == seq[Len(seq)]
       IN IF \E i \in 1..Len(front) : front[i] = last THEN front ELSE Append(front, last)

\* the section as a list, empty when `data?.section && Array.isArray(...)` fails
Listed(data, section) == IF section \in DOMAIN data THEN data[section] ELSE <<>>

\* variant: the count is the last index
SectionCount_LastIndex(data, section) ==
  IF Len(Listed(data, section)) = 0 THEN 0 ELSE Len(Listed(data, section)) - 1

\* lines 89-90 and 97-98: summary.services, summary.databases
SectionCount(data, section) == Len(Listed(data, section))

\* lines 91-94 and 99-101: the truthy values of one field, in order
FieldValues(items, field) ==
  LET given == SelectSeq(items, LAMBDA item : item[field] # "")
  IN Distinct([i \in 1..Len(given) |-> Str(given[i][field])])

\* fileUtils.ts 71-117
generateInfraSummary(data) ==
  LET services == SectionCount(data, "services")
      databases == SectionCount(data, "databases")
  IN Obj(<<Ent("services", Num(services)),
           Ent("databases", Num(databases)),
           Ent("environments",
               Num(IF "environment" \in DOMAIN data THEN Len(data.environment) ELSE 0)),
           Ent("totalComponents", Num(services + databases)),
           Ent("details",
               Obj(<<Ent("serviceTypes", Arr(FieldValues(Listed(data, "services"), "type"))),
                     Ent("databaseTypes", Arr(FieldValues(Listed(data, "databases"), "type"))),
                     Ent("runtimes", Arr(FieldValues(Listed(data, "services"), "runtime")))>>))>>)

(***************************************************************************)
(* JSON.stringify(data, null, 2) (fileUtils.ts 31) and JSON.parse, on the  *)
(* values the summary is made of: integers, strings, arrays and objects.   *)
(* Of the string escapes only the quote, the backslash and the line feed   *)
(* are modelled.                                                           *)
(***************************************************************************)
RECURSIVE Escaped(_)
Escaped(str) ==
  IF Len(str) = 0 THEN ""
  ELSE (CASE Char(str, 1) = "\"" -> "\\\""
          [] Char(str, 1) = "\\" -> "\\\\"
          [] Char(str, 1) = "\n" -> "\\n"
          [] OTHER -> Char(str, 1))
       \o Escaped(SubSeq(str, 2, Len(str)))

Defined(entry) == entry.v.t # "undef"

\* the text of one value; `indent` is the indentation of the enclosing line
RECURSIVE Stringified(_, _)
Stringified(v, indent) ==
  CASE v.t \in {"null", "nan", "undef"} -> "null"
    [] v.t = "num" -> NumToStr(v.n)
    [] v.t = "bool" -> IF v.b THEN "true" ELSE "false"
    [] v.t = "str" -> "\"" \o Escaped(v.s) \o "\""
    [] v.t = "arr" ->
         IF Len(v.a) = 0 THEN "[]"
         ELSE "[\n"
              \o Join([i \in 1..Len(v.a) |->
                         indent \o "  " \o Stringified(v.a[i], indent \o "  ")], ",\n")
              \o "\n" \o indent \o "]"
    [] v.t = "obj" ->
         LET kept == SelectSeq(v.e, Defined)
         IN IF Len(kept) = 0 THEN "{}"
            ELSE "{\n"
                 \o Join([i \in 1..Len(kept) |->
                            indent \o "  \"" \o Escaped(kept[i].k) \o "\": "
                            \o Stringified(kept[i].v, indent \o "  ")], ",\n")
                 \o "\n" \o indent \o "}"

\* JSON.stringify(data, null, 2)
JsonStringify(v) == Stringified(v, "")

\* the first position from i on that holds no white space
SkipSpace(text, i) ==
  CHOOSE j \in i..(Len(text) + 1) :
    /\ j = Len(text) + 1 \/ Char(text, j) \notin WhiteSpace
    /\ \A k \in i..(j - 1) : Char(text, k) \in WhiteSpace

Parsed(v, next) == [v |-> v, next |-> next]

\* the string literal whose characters run from position i to its closing quote
RECURSIVE ParseChars(_, _, _)
ParseChars(text, i, acc) ==
  IF i > Len(text) THEN Parsed(Thrown, i)
  ELSE IF Char(text, i) = "\"" THEN Parsed(Str(acc), i + 1)
  ELSE IF Char(text, i) = "\\"
    THEN IF i = Len(text) THEN Parsed(Thrown, i)
         ELSE ParseChars(text, i + 2,
                acc \o (IF Char(text, i + 1) = "n" THEN "\n" ELSE Char(text, i + 1)))
  ELSE ParseChars(text, i + 1, acc \o Char(text, i))

\* the end of the run of digits that starts at i
DigitsEnd(text, i) ==
  CHOOSE j \in (i - 1)..Len(text) :
    /\ \A k \in i..j : Char(text, k) \in DigitChars
    /\ j = Len(text) \/ Char(text, j + 1) \notin DigitChars

ParseNumber(text, i) ==
  LET from == IF Char(text, i) = "-" THEN i + 1 ELSE i
      to == DigitsEnd(text, from)
  IN IF to < from THEN Parsed(Thrown, i)
     ELSE Parsed(Num((IF from > i THEN -1 ELSE 1) * DigitsVal(SubSeq(text, from, to))), to + 1)

ParseWord(text, i, word, v) ==
  IF SubSeq(text, i, i + Len(word) - 1) = word THEN Parsed(v, i + Len(word)) ELSE Parsed(Thrown, i)

RECURSIVE ParseValue(_, _)
RECURSIVE ParseElements(_, _, _)
RECURSIVE ParseMembers(_, _, _)

\* one value starting at the first non-blank position from i on
ParseValue(text, i) ==
  LET at == SkipSpace(text, i)
      c == IF at > Len(text) THEN "" ELSE Char(text, at)
  IN CASE c = "{" -> ParseMembers(text, at + 1, <<>>)
       [] c = "[" -> ParseElements(text, at + 1, <<>>)
       [] c = "\"" -> ParseChars(text, at + 1, "")
       [] c = "n" /\ at + 3 <= Len(text) -> ParseWord(text, at, "null", Null)
       [] c = "t" /\ at + 3 <= Len(text) -> ParseWord(text, at, "true", Bool(TRUE))
       [] c = "f" /\ at + 4 <= Len(text) -> ParseWord(text, at, "false", Bool(FALSE))
       [] c \in DigitChars \cup {"-"} -> ParseNumber(text, at)
       [] OTHER -> Parsed(Thrown, at)

\* the elements of an array after its opening bracket or a comma
ParseElements(text, i, acc) ==
  LET at == SkipSpace(text, i)
  IN IF at > Len(text) THEN Parsed(Thrown, at)
     ELSE IF Char(text, at) = "]" /\ Len(acc) = 0 THEN Parsed(Arr(acc), at + 1)
     ELSE LET r == ParseValue(text, at)
              after == IF r.v = Thrown THEN at ELSE SkipSpace(text, r.next)
          IN IF r.v = Thrown \/ after > Len(text) THEN Parsed(Thrown, after)
             ELSE IF Char(text, after) = "," THEN ParseElements(text, after + 1, Append(acc, r.v))
             ELSE IF Char(text, after) = "]" THEN Parsed(Arr(Append(acc, r.v)), after + 1)
             ELSE Parsed(Thrown, after)

\* the members of an object after its opening brace or a comma
ParseMembers(text, i, acc) ==
  LET at == SkipSpace(text, i)
  IN IF at > Len(text) THEN Parsed(Thrown, at)
     ELSE IF Char(text, at) = "}" /\ Len(acc) = 0 THEN Parsed(Obj(acc), at + 1)
     ELSE IF Char(text, at) # "\"" THEN Parsed(Thrown, at)
     ELSE LET key == ParseChars(text, at + 1, "")
              colon == IF key.v = Thrown THEN at ELSE SkipSpace(text, key.next)
          IN IF key.v = Thrown \/ colon > Len(text) THEN Parsed(Thrown, colon)
             ELSE IF Char(text, colon) # ":" THEN Parsed(Thrown, colon)
             ELSE LET r == ParseValue(text, colon + 1)
                      after == IF r.v = Thrown THEN colon ELSE SkipSpace(text, r.next)
                      kept == SelectSeq(acc, LAMBDA e : e.k # key.v.s)
                  IN IF r.v = Thrown \/ after > Len(text) THEN Parsed(Thrown, after)
                     ELSE IF Char(text, after) = ","
                       THEN ParseMembers(text, after + 1, Append(kept, Ent(key.v.s, r.v)))
                     ELSE IF Char(text, after) = "}"
                       THEN Parsed(Obj(Append(kept, Ent(key.v.s, r.v))), after + 1)
                     ELSE Parsed(Thrown, after)

\* JSON.parse(text): the value, or the SyntaxError it raises
JsonParse(text) ==
  LET r == ParseValue(text, 1)
  IN IF r.v = Thrown THEN Thrown
     ELSE IF SkipSpace(text, r.next) <= Len(text) THEN Thrown
     ELSE r.v

(***************************************************************************)
(* The upload component (FileUpload, part_004): validation of a chosen     *)
(* file and the results it displays.                                       *)
(***************************************************************************)
\* fileUtils.ts 56-59
SupportedExtensions ==
  <<".json", ".yaml", ".yml", ".toml", ".xml", ".config", ".conf",
    ".properties", ".env", ".tf", ".hcl", ".dockerfile">>

\* fileUtils.ts 55-64
isSupportedFileType(name) ==
  LET lowerFilename == ToLowerCase(name)
  IN \E i \in 1..Len(SupportedExtensions) : EndsWith(lowerFilename, SupportedExtensions[i])

\* part_004 29: 10 * 1024 * 1024
MaxSize == 10485760

SizeMessage == "File size must be less than 10MB"
TypeMessage == "Please upload a valid configuration file (JSON, YAML, XML, TOML, etc.)"

\* variant: the size is not looked at
validateFile_SizeUnchecked(f) ==
  IF ~isSupportedFileType(f.name) THEN Str(TypeMessage) ELSE Null

\* part_004 28-40: the message, or null for an acceptable file
validateFile(f) ==
  IF f.size > MaxSize THEN Str(SizeMessage)
  ELSE IF ~isSupportedFileType(f.name) THEN Str(TypeMessage)
  ELSE Null

\* { error, name: file.name, size: file.size, preview: '', type: '' }
ErrorResult(message, f) ==
  [error |-> message, name |-> f.name, size |-> f.size, preview |-> "", type |-> ""]

\* the body of a 200 response: the endpoint echoes the file's name and size
ServerResult(f) ==
  [error |-> "", name |-> f.name, size |-> f.size, preview |-> "preview", type |-> "json"]

\* what a request can come to: a 200, the endpoint's 400 with its message,
\* a status without a readable body, a rejected fetch
Outcomes == {"ok", "refused", "failed", "network"}

\* part_004 96-116: the result set when the request for f completes
ResultOf(outcome, f) ==
  CASE outcome = "ok" -> ServerResult(f)
    [] outcome = "refused" -> ErrorResult("No file uploaded", f)
    [] outcome = "failed" -> ErrorResult("Upload failed with status 500", f)
    [] outcome = "network" -> ErrorResult("Network error: Failed to fetch", f)

(***************************************************************************)
(* The decoders.  JSON.parse and YAML.parse are library code: what each    *)
(* returns for the uploaded content is an input of the model, either a     *)
(* decoded tree or the message of the error it raised.                     *)
(***************************************************************************)
Decoded(tree) == [success |-> TRUE, data |-> tree]
Failed(message) == [success |-> FALSE, error |-> message]

\* route.ts 360-372: the catch branch of safeJsonParseEnhanced
JsonSuggestion(error) ==
  IF Includes(error, "Unexpected token")
    THEN "Check for missing quotes, commas, or brackets in your JSON structure"
  ELSE IF Includes(error, "Unexpected end")
    THEN "Your JSON appears to be incomplete - check for missing closing brackets or braces"
  ELSE IF Includes(error, "position")
    THEN "There's a syntax error in your JSON - try validating it with a JSON formatter"
  ELSE ""

\* route.ts 356-374
safeJsonParseEnhanced(outcome) ==
  IF outcome.success THEN outcome
  ELSE [success |-> FALSE, error |-> outcome.error, suggestion |-> JsonSuggestion(outcome.error)]

\* route.ts 323-330
safeYamlParse(outcome) == outcome

\* ${jsonResult.error}${jsonResult.suggestion ? ` (${jsonResult.suggestion})` : ''}
JsonErrorText(jsonResult) ==
  jsonResult.error
  \o (IF jsonResult.suggestion # "" THEN " (" \o jsonResult.suggestion \o ")" ELSE "")

PreviewLen == 500

\* validation?.suggestions || []
SuggestionsOf(validation) == IF validation = Null THEN <<>> ELSE validation.suggestions

\* suggestions.unshift(note): suggestions is validation.suggestions itself
\* when there is a validation, so the note lands in both lists
Unshifted(validation, note) ==
  IF validation = Null THEN Null
  ELSE [validation EXCEPT !.suggestions = <<note>> \o @]

\* the state of the handler's locals after a successful decode (e.g. 547-550)
DecodedLocals(tree, type, note, throws) ==
  LET validation == safeValidateInfraStructure(tree, throws)
  IN [parsed |-> normalizeToInfraData(tree),
      rawParsed |-> tree,
      type |-> type,
      parseError |-> Null,
      validation |-> IF Len(note) = 0 THEN validation ELSE Unshifted(validation, note[1]),
      suggestions |-> note \o SuggestionsOf(validation)]

\* the locals when both decoders failed
FailedLocals(type, message) ==
  [parsed |-> Null, rawParsed |-> Undef, type |-> type, parseError |-> Str(message),
   validation |-> Null, suggestions |-> <<>>]

\* variant: the effective type is not overridden on the YAML fallback
JsonFirst_KeepsType(jsonResult, yamlResult, throws) ==
  IF jsonResult.success THEN DecodedLocals(jsonResult.data, "json", <<>>, throws)
  ELSE IF yamlResult.success
    THEN DecodedLocals(yamlResult.data, "json",
           <<"Note: File parsed as YAML despite .json extension. " \o jsonResult.suggestion>>, throws)
  ELSE FailedLocals("json",
         "JSON parse error: " \o JsonErrorText(jsonResult)
         \o ". YAML parse error: " \o yamlResult.error)

\* route.ts 544-564: the classifier said json
JsonFirst(jsonResult, yamlResult, throws) ==
  IF jsonResult.success THEN DecodedLocals(jsonResult.data, "json", <<>>, throws)
  ELSE IF yamlResult.success
    THEN DecodedLocals(yamlResult.data, "yaml",
           <<"Note: File parsed as YAML despite .json extension. " \o jsonResult.suggestion>>, throws)
  ELSE FailedLocals("json",
         "JSON parse error: " \o JsonErrorText(jsonResult)
         \o ". YAML parse error: " \o yamlResult.error)

\* variant: the combined error leaves out the JSON parser's message
YamlFirst_YamlMessageOnly(jsonResult, yamlResult, throws) ==
  IF yamlResult.success THEN DecodedLocals(yamlResult.data, "yaml", <<>>, throws)
  ELSE IF jsonResult.success
    THEN DecodedLocals(jsonResult.data, "json",
           <<"Note: File parsed as JSON despite YAML-like extension">>, throws)
  ELSE FailedLocals("yaml", "YAML parse error: " \o yamlResult.error)

\* route.ts 565-585: the classifier said yaml
YamlFirst(jsonResult, yamlResult, throws) ==
  IF yamlResult.success THEN DecodedLocals(yamlResult.data, "yaml", <<>>, throws)
  ELSE IF jsonResult.success
    THEN DecodedLocals(jsonResult.data, "json",
           <<"Note: File parsed as JSON despite YAML-like extension">>, throws)
  ELSE FailedLocals("yaml",
         "YAML parse error: " \o yamlResult.error
         \o ". JSON parse error: " \o JsonErrorText(jsonResult))

\* variant: a YAML success is taken before a JSON success
BothFormats_YamlPreferred(jsonResult, yamlResult, throws) ==
  IF yamlResult.success THEN DecodedLocals(yamlResult.data, "yaml", <<>>, throws)
  ELSE IF jsonResult.success THEN DecodedLocals(jsonResult.data, "json", <<>>, throws)
  ELSE FailedLocals("unknown",
         "Could not parse as JSON or YAML. JSON error: " \o JsonErrorText(jsonResult)
         \o ". YAML error: " \o yamlResult.error)

\* route.ts 586-606: the classifier said unknown
BothFormats(jsonResult, yamlResult, throws) ==
  IF jsonResult.success THEN DecodedLocals(jsonResult.data, "json", <<>>, throws)
  ELSE IF yamlResult.success THEN DecodedLocals(yamlResult.data, "yaml", <<>>, throws)
  ELSE FailedLocals("unknown",
         "Could not parse as JSON or YAML. JSON error: " \o JsonErrorText(jsonResult)
         \o ". YAML error: " \o yamlResult.error)

\* route.ts 544-606: the decode cascade
DecodeCascade(type, jsonOutcome, yamlOutcome, throws) ==
  LET jsonResult == safeJsonParseEnhanced(jsonOutcome)
      yamlResult == safeYamlParse(yamlOutcome)
  IN IF type = "json" THEN JsonFirst(jsonResult, yamlResult, throws)
     ELSE IF type = "yaml" THEN YamlFirst(jsonResult, yamlResult, throws)
     ELSE BothFormats(jsonResult, yamlResult, throws)

NoFile == [t |-> "null"]

\* route.ts 522-619: the value handed to NextResponse.json
ParseResponse(file, jsonOutcome, yamlOutcome, throws) ==
  IF file = NoFile THEN [status |-> 400, error |-> "No file uploaded"]
  ELSE LET locals == DecodeCascade(detectContentType(file.content, file.name),
                                   jsonOutcome, yamlOutcome, throws)
       IN IF locals.parsed = Thrown THEN Thrown
          ELSE [status |-> 200,
                name |-> file.name,
                size |-> file.size,
                preview |-> Slice0(file.content, PreviewLen),
                type |-> locals.type,
                parsed |-> locals.parsed,
                rawParsed |-> locals.rawParsed,
                parseError |-> locals.parseError,
                validation |-> locals.validation,
                suggestions |-> locals.suggestions]

(***************************************************************************)
(* Bounds and the decoded trees the normalizer is applied to.              *)
(***************************************************************************)
\* longest sequence / keyed mapping built from the core items
MaxItems == 2

\* the keys of a service-like or database-like object, each optional
NameOpts ==
  {<<>>, <<Ent("name", Str("api"))>>, <<Ent("name", Str(""))>>,
   <<Ent("name", Num(0))>>, <<Ent("name", EmptyObj)>>}

IdOpts == {<<>>, <<Ent("id", Str("web"))>>, <<Ent("id", Num(7))>>}

TypeOpts == {<<>>, <<Ent("type", Str("postgres"))>>, <<Ent("kind", Bool(TRUE))>>}

DetailOpts ==
  {<<>>, <<Ent("runtime", Str("node:18"))>>, <<Ent("port", Str("5432"))>>,
   <<Ent("image", Num(18)), Ent("port", Num(80))>>}

ItemObjects ==
  {Obj(n \o i \o t \o d) : n \in NameOpts, i \in IdOpts, t \in TypeOpts, d \in DetailOpts}

Scalars == {Null, Str(""), Str("bar"), Num(0), Num(5432), Bool(TRUE), Bool(FALSE)}

\* every element a sequence or keyed mapping may hold
AllItems == ItemObjects \cup Scalars \cup {Arr(<<>>), Arr(<<Str("x")>>)}

\* the elements used in sequences longer than one
CoreItems ==
  {EmptyObj, Null,
   Obj(<<Ent("name", Str("api")), Ent("runtime", Str("node:18"))>>),
   Obj(<<Ent("type", Str("postgres")), Ent("port", Str("5432"))>>)}

ItemSeqs ==
  {<<>>} \cup {<<x>> : x \in AllItems}
  \cup UNION {[1..n -> CoreItems] : n \in 2..MaxItems}

ItemKeys == {"web", "db", ""}

KeyedSeqs ==
  {<<>>} \cup {<<Ent(k, x)>> : k \in ItemKeys, x \in AllItems}
  \cup UNION {{e \in [1..n -> {Ent(k, x) : k \in ItemKeys, x \in CoreItems}] :
                 \A i, j \in 1..n : i # j => e[i].k # e[j].k} : n \in 2..MaxItems}

\* what a section key may hold
SectionValues == {Arr(a) : a \in ItemSeqs} \cup {Obj(e) : e \in KeyedSeqs} \cup Scalars

\* a few section values for the roots that combine several sections
FewSections ==
  {Arr(<<>>), EmptyObj, Str("bar"), Num(0),
   Arr(<<Obj(<<Ent("name", Str("api")), Ent("runtime", Str("node:18"))>>)>>),
   Arr(<<Obj(<<Ent("type", Str("postgres")), Ent("port", Str("5432"))>>)>>),
   Obj(<<Ent("PORT", Num(5432)), Ent("DEBUG", Bool(TRUE)), Ent("HOST", Str("db")),
         Ent("NONE", Null), Ent("LIST", Arr(<<Str("x")>>)), Ent("MAP", EmptyObj)>>)}

\* one listed service and one listed database with a string port
Scenario ==
  Obj(<<Ent("services", Arr(<<Obj(<<Ent("name", Str("api")), Ent("runtime", Str("node:18"))>>)>>)),
        Ent("databases", Arr(<<Obj(<<Ent("type", Str("postgres")), Ent("port", Str("5432"))>>)>>))>>)

\* keys outside the recognised aliases
ExtraOpts ==
  {<<>>, <<Ent("foo", Str("bar"))>>, <<Ent("foo", Obj(<<Ent("kind", Str("job"))>>))>>,
   <<Ent("", EmptyObj), Ent("list", Arr(<<EmptyObj>>)), Ent("bar", EmptyObj)>>}

SectionKeys == {"services", "apps", "databases", "data", "environment", "variables"}

\* one recognised key with any section value
SingleSectionRoots ==
  {Obj(<<Ent(k, v)>> \o x) :
     k \in SectionKeys, v \in SectionValues,
     x \in {<<>>, <<Ent("foo", Obj(<<Ent("kind", Str("job"))>>))>>}}

Opt(k, vals) == {<<>>} \cup {<<Ent(k, v)>> : v \in vals}

\* services, databases and environment side by side
CombinedRoots ==
  {Obj(s \o d \o e \o x) :
     s \in Opt("services", FewSections), d \in Opt("databases", FewSections),
     e \in Opt("environment", FewSections), x \in ExtraOpts}

\* two aliases of one section, the first of them possibly falsy or a scalar
AliasRoots ==
  {Obj(<<Ent(p[1], v), Ent(p[2], w)>>) :
     p \in {<<"services", "applications">>, <<"applications", "apps">>,
            <<"databases", "db">>, <<"db", "data">>,
            <<"environment", "env">>, <<"envVars", "variables">>},
     v \in FewSections, w \in FewSections}

ArrayRoots == {Arr(a) : a \in ItemSeqs}

\* the alias lists of a service, as pairs of neighbours
AliasPairs ==
  {<<"name", "id">>, <<"type", "kind">>, <<"runtime", "image">>, <<"runtime", "version">>,
   <<"image", "version">>, <<"buildCommand", "build">>, <<"startCommand", "command">>,
   <<"startCommand", "cmd">>, <<"command", "cmd">>, <<"rootDir", "workingDir">>,
   <<"rootDir", "path">>, <<"workingDir", "path">>}

\* one listed service whose earlier alias holds a scalar, falsy or not
AliasProbes ==
  {Obj(<<Ent("services", Arr(<<Obj(<<Ent(p[1], v), Ent(p[2], Str("alt"))>>)>>))>>) :
     p \in AliasPairs,
     v \in {Str("node:18"), Str(""), Num(0), Num(18), Bool(FALSE), Bool(TRUE)}}

PortValues ==
  {Str("5432"), Str(" 80 "), Str("-1"), Str(""), Str(" "), Str("abc"), Str("80a"),
   Num(0), Num(5432), Bool(TRUE), Bool(FALSE), Null, Arr(<<Num(80)>>),
   Obj(<<Ent("port", Num(80))>>)}

\* one database, listed or keyed, with each kind of port
PortProbes ==
  {Obj(<<Ent("databases", Arr(<<Obj(<<Ent("name", Str("main"))>> \o port)>>))>>) :
     port \in Opt("port", PortValues)}
  \cup {Obj(<<Ent("db", Obj(<<Ent("main", Obj(port))>>))>>) : port \in Opt("port", PortValues)}

ScalarRoots == {Undef, NaN} \cup Scalars

RawTrees ==
  ScalarRoots \cup ArrayRoots \cup SingleSectionRoots \cup CombinedRoots
  \cup AliasRoots \cup {Obj(x) : x \in ExtraOpts} \cup AliasProbes \cup PortProbes

(***************************************************************************)
(* The uploads the endpoint is called with.                                *)
(***************************************************************************)
\* how far the longest content runs past the preview
Overrun == 1

RECURSIVE Repeat(_, _)
Repeat(s, n) ==
  IF n = 0 THEN ""
  ELSE LET half == Repeat(s, n \div 2)
       IN half \o half \o (IF n % 2 = 1 THEN s ELSE "")

FileNames == {"config.json", "stack.YAML", "app.yml", "notes.txt", "Dockerfile"}

Contents ==
  {"", "{\"a\": }", "key: value", "  {\"a\": 1, \"a\": 2}\n", "[1, 2]", "- item",
   "a\n---\nb", "plain text", "{\"services\": []",
   "v: " \o Repeat("x", PreviewLen + Overrun - 3)}

\* File.size is the byte length; the contents are ASCII
Files == {[name |-> n, content |-> c, size |-> Len(c)] : n \in FileNames, c \in Contents}

DecodedTrees ==
  {Null, Str("plain text"), Num(0), Arr(<<>>), Arr(<<Null>>),
   Obj(<<Ent("key", Str("value"))>>), Scenario,
   Obj(<<Ent("apiVersion", Str("v1")), Ent("services", EmptyObj), Ent("api_key", Str("k"))>>)}

JsonErrors ==
  {"Unexpected token } in JSON at position 6", "Unexpected end of JSON input",
   "Expected property name or '}' in JSON at position 1", "\"undefined\" is not valid JSON"}

YamlErrors ==
  {"Map keys must be unique at line 1, column 9",
   "Nested mappings are not allowed in compact mappings at line 1, column 6"}

JsonOutcomes == {Decoded(t) : t \in DecodedTrees} \cup {Failed(m) : m \in JsonErrors}
YamlOutcomes == {Decoded(t) : t \in DecodedTrees} \cup {Failed(m) : m \in YamlErrors}

(***************************************************************************)
(* State.  data/result/prev: the tree handed to the normalizer, what it    *)
(* returned and, once the canonical value has been normalized again, the   *)
(* first result.  file/jsonOutcome/yamlOutcome/response: one request to    *)
(* the parse endpoint.                                                     *)
(***************************************************************************)
VARIABLES data, result, prev, pc, file, jsonOutcome, yamlOutcome, response,
          content, filename, verdict,
          tree, validation, matches, prevValidation, prevMatches, quick,
          config, metadata, validatorThrows,
          infra, lines, diagram,
          canonical, summary, exported, reparsed,
          selectedFile, uploadResult, isLoading, isDragOver, inFlight, sent, handled

vars == <<data, result, prev, pc, file, jsonOutcome, yamlOutcome, response,
          content, filename, verdict,
          tree, validation, matches, prevValidation, prevMatches, quick,
          config, metadata, validatorThrows,
          infra, lines, diagram,
          canonical, summary, exported, reparsed,
          selectedFile, uploadResult, isLoading, isDragOver, inFlight, sent, handled>>

normVars == <<data, result, prev>>
postVars == <<file, jsonOutcome, yamlOutcome, response, validatorThrows>>
detectVars == <<content, filename, verdict>>
validateVars == <<tree, validation, matches, prevValidation, prevMatches, quick>>
metaVars == <<config, metadata>>
serverVars == <<normVars, postVars, detectVars, validateVars, metaVars>>
diagramVars == <<infra, lines, diagram>>
summaryVars == <<canonical, summary, exported, reparsed>>
\* inFlight is the file the pending request closed over, sent the files
\* posted so far, handled the event handled last
uploadVars == <<selectedFile, uploadResult, isLoading, isDragOver, inFlight, sent, handled>>
clientVars == <<diagramVars, summaryVars, uploadVars>>

NormIdle == data = Undef /\ result = Undef /\ prev = Undef
PostIdle ==
  /\ file = NoFile /\ jsonOutcome = Undef /\ yamlOutcome = Undef /\ response = Undef
  /\ validatorThrows = FALSE
DetectIdle == content = "" /\ filename = "" /\ verdict = ""
ValidateIdle ==
  /\ tree = Undef /\ validation = Undef /\ matches = 0
  /\ prevValidation = Undef /\ prevMatches = 0 /\ quick = Undef
MetaIdle == config = Undef /\ metadata = Undef
ServerIdle == NormIdle /\ PostIdle /\ DetectIdle /\ ValidateIdle /\ MetaIdle
DiagramIdle == infra = Undef /\ lines = <<>> /\ diagram = ""
SummaryIdle == canonical = Undef /\ summary = Undef /\ exported = "" /\ reparsed = Undef
UploadIdle ==
  /\ selectedFile = Null
  /\ uploadResult = Null
  /\ isLoading = FALSE
  /\ isDragOver = FALSE
  /\ inFlight = Null
  /\ sent = {}
  /\ handled = Null
ClientIdle == DiagramIdle /\ SummaryIdle /\ UploadIdle

Init ==
  /\ data \in RawTrees
  /\ result = Undef
  /\ prev = Undef
  /\ pc = "call"
  /\ ClientIdle
  /\ PostIdle
  /\ DetectIdle
  /\ ValidateIdle
  /\ MetaIdle

\* normalizeToInfraData(data)
Normalize ==
  /\ pc = "call"
  /\ result' = normalizeToInfraData(data)
  /\ pc' = "done"
  /\ UNCHANGED <<clientVars, data, prev, postVars, detectVars, validateVars, metaVars>>

\* the canonical value is normalized a second time
Renormalize ==
  /\ pc = "done"
  /\ result # Thrown
  /\ data' = CanonicalTree(result)
  /\ prev' = result
  /\ result' = normalizeToInfraData(data')
  /\ pc' = "redone"
  /\ UNCHANGED <<clientVars, postVars, detectVars, validateVars, metaVars>>

Next == Normalize \/ Renormalize

Spec == Init /\ [][Next]_vars

PostInit ==
  /\ file \in Files \cup {NoFile}
  /\ jsonOutcome \in JsonOutcomes
  /\ yamlOutcome \in YamlOutcomes
  /\ validatorThrows \in BOOLEAN
  /\ response = Undef
  /\ pc = "request"
  /\ ClientIdle
  /\ NormIdle
  /\ DetectIdle
  /\ ValidateIdle
  /\ MetaIdle

\* export async function POST(req)
POST ==
  /\ pc = "request"
  /\ response' = ParseResponse(file, jsonOutcome, yamlOutcome, validatorThrows)
  /\ pc' = "responded"
  /\ UNCHANGED <<clientVars, normVars, file, jsonOutcome, yamlOutcome, validatorThrows, detectVars,
               validateVars, metaVars>>

PostNext == POST

PostSpec == PostInit /\ [][PostNext]_vars

(***************************************************************************)
(* The content classifier on its own: contents are runs of a few tokens.   *)
(***************************************************************************)
\* longest content, in tokens
MaxTokens == 3

Tokens == {"{", "}", "[", "]", "---", "k", "9", ":", ": ", " ", "- ", "\n"}

RECURSIVE Concat(_)
Concat(seq) == IF Len(seq) = 0 THEN "" ELSE Head(seq) \o Concat(Tail(seq))

TokenContents == {Concat(t) : t \in UNION {[1..n -> Tokens] : n \in 0..MaxTokens}}

DetectNames == {"config.json", "A.JSON", "stack.YAML", "app.yml", "notes.txt", "json", "x.yml.bak"}

DetectInit ==
  /\ content \in TokenContents
  /\ filename \in DetectNames
  /\ verdict = ""
  /\ pc = "detect"
  /\ ClientIdle
  /\ NormIdle
  /\ PostIdle
  /\ ValidateIdle
  /\ MetaIdle

\* type = detectContentType(content, filename)
Detect ==
  /\ pc = "detect"
  /\ verdict' = detectContentType(content, filename)
  /\ pc' = "detected"
  /\ UNCHANGED <<clientVars, normVars, postVars, content, filename, validateVars, metaVars>>

DetectNext == Detect

DetectSpec == DetectInit /\ [][DetectNext]_vars

(***************************************************************************)
(* The structure classifier on its own: mappings over a pool of keys, one  *)
(* or two per tag list and two that no list holds.                         *)
(***************************************************************************)
\* most keys a mapping from the pool has
MaxKeys == 4

KeyOrder ==
  <<"apiVersion", "kind", "spec", "version", "services", "volumes", "resource",
    "output", "apps", "databases", "env", "name", "api_key">>

KeySets ==
  {S \in SUBSET {KeyOrder[i] : i \in 1..Len(KeyOrder)} : Cardinality(S) <= MaxKeys}

\* what the services key may hold
ServicesValues == {Null, Str(""), Num(0), Bool(FALSE), Arr(<<>>), EmptyObj}

InSet(S, k) == k \in S

MappingOf(S, servicesValue) ==
  LET keys == SelectSeq(KeyOrder, LAMBDA k : InSet(S, k))
  IN Obj([i \in 1..Len(keys) |->
            Ent(keys[i], IF keys[i] = "services" THEN servicesValue ELSE Str("v"))])

\* eleven keys, none from a tag list
LargeTree == Obj([i \in 1..11 |-> Ent("k" \o ToString(i), Num(i))])

ValidatorTrees ==
  {MappingOf(S, v) : S \in KeySets, v \in ServicesValues}
  \cup {LargeTree, Null, Str("web"), Num(1), Arr(<<>>), Arr(<<Str("web")>>)}

ValidateInit ==
  /\ tree \in ValidatorTrees
  /\ validation = Undef
  /\ matches = 0
  /\ prevValidation = Undef
  /\ prevMatches = 0
  /\ quick = Undef
  /\ pc = "validate"
  /\ ClientIdle
  /\ NormIdle
  /\ PostIdle
  /\ DetectIdle
  /\ MetaIdle

\* validateInfraStructure(data)
Validate ==
  /\ pc = "validate"
  /\ validation' = validateInfraStructure(tree)
  /\ matches' = MatchesOf(tree)
  /\ pc' = "validated"
  /\ UNCHANGED <<clientVars, normVars, postVars, detectVars, metaVars, tree, prevValidation, prevMatches,
                 quick>>

\* the manifest keys a mapping does not have yet
MissingManifestKeys(obj) == {k8sKeys[i] : i \in 1..Len(k8sKeys)} \ {obj.e[i].k : i \in 1..Len(obj.e)}

Extended(obj, added) ==
  LET keys == SelectSeq(k8sKeys, LAMBDA k : InSet(added, k))
  IN Obj(obj.e \o [i \in 1..Len(keys) |-> Ent(keys[i], Str("v"))])

\* the same mapping with manifest keys added is classified again
Revalidate ==
  /\ pc = "validated"
  /\ isObjectContent(tree)
  /\ \E added \in SUBSET MissingManifestKeys(tree) \ {{}} :
       /\ tree' = Extended(tree, added)
       /\ validation' = validateInfraStructure(tree')
       /\ matches' = MatchesOf(tree')
  /\ prevValidation' = validation
  /\ prevMatches' = matches
  /\ pc' = "revalidated"
  /\ UNCHANGED <<clientVars, normVars, postVars, detectVars, metaVars, quick>>

\* quickValidateInfraStructure(data) on the tree that was classified
QuickValidate ==
  /\ pc = "validated"
  /\ quick' = quickValidateInfraStructure(tree)
  /\ pc' = "compared"
  /\ UNCHANGED <<clientVars, normVars, postVars, detectVars, metaVars, tree, validation, matches,
                 prevValidation, prevMatches>>

ValidateNext == Validate \/ Revalidate \/ QuickValidate

ValidateSpec == ValidateInit /\ [][ValidateNext]_vars

(***************************************************************************)
(* The metadata extractor on its own: roots of a few children, each child  *)
(* a scalar or a small sequence or mapping.                                *)
(***************************************************************************)
\* most children a root has
MaxChildren == 3

ChildValues ==
  {Null, Str(""), Str("hunter2"), Num(80),
   Arr(<<>>), Arr(<<Num(80), Num(443)>>), Arr(<<EmptyObj>>),
   EmptyObj, Obj(<<Ent("Password", Str("hunter2"))>>),
   Obj(<<Ent("ports", Arr(<<Num(80)>>)), Ent("secretKey", Num(1))>>)}

\* the key of the i-th property of a mapping root
RootKeys == <<"name", "dbPassword", "API_SECRET", "extra">>

ChildSeqs == UNION {[1..n -> ChildValues] : n \in 0..MaxChildren}

\* property counts on either side of each complexity threshold
WideSizes == {10, 11, 15, 16, 20, 21, 50, 51}

\* n properties, none nested
FlatTree(n) == Arr([i \in 1..n |-> Num(i)])

\* n properties over two levels, one of them a mapping
DeepTree(n) ==
  Obj(<<Ent("items", Arr([i \in 1..(n - 2) |-> Num(i)])), Ent("meta", EmptyObj)>>)

ConfigTrees ==
  {Arr(c) : c \in ChildSeqs}
  \cup {Obj([i \in 1..Len(c) |-> Ent(RootKeys[i], c[i])]) : c \in ChildSeqs}
  \cup {FlatTree(n) : n \in WideSizes} \cup {DeepTree(n) : n \in WideSizes}
  \cup {Null, Str("plain text"), Num(0), Bool(TRUE)}

MetaInit ==
  /\ config \in ConfigTrees
  /\ metadata = Undef
  /\ pc = "extract"
  /\ ClientIdle
  /\ NormIdle
  /\ PostIdle
  /\ DetectIdle
  /\ ValidateIdle

\* extractConfigMetadata(data)
Extract ==
  /\ pc = "extract"
  /\ metadata' = extractConfigMetadata(config)
  /\ pc' = "extracted"
  /\ UNCHANGED <<clientVars, normVars, postVars, detectVars, validateVars, config>>

MetaNext == Extract

MetaSpec == MetaInit /\ [][MetaNext]_vars

(***************************************************************************)
(* The diagram builder on its own, given what the normalizer returns.      *)
(***************************************************************************)
CanonicalValues == {normalizeToInfraData(t) : t \in RawTrees} \ {Thrown}

DiagramInit ==
  /\ infra \in CanonicalValues
  /\ lines = <<>>
  /\ diagram = ""
  /\ pc = "draw"
  /\ ServerIdle
  /\ SummaryIdle
  /\ UploadIdle

\* makeMermaidDiagram(data)
Draw ==
  /\ pc = "draw"
  /\ lines' = DiagramLines(infra)
  /\ diagram' = makeMermaidDiagram(infra)
  /\ pc' = "drawn"
  /\ UNCHANGED <<serverVars, summaryVars, uploadVars, infra>>

DiagramNext == Draw

DiagramSpec == DiagramInit /\ [][DiagramNext]_vars

(***************************************************************************)
(* The summary export (FileUpload handleExportSummary, part_004 147-153):  *)
(* the summary of the canonical value, its JSON text, and the text read    *)
(* back.                                                                   *)
(***************************************************************************)
SummaryInit ==
  /\ canonical \in CanonicalValues
  /\ summary = Undef
  /\ exported = ""
  /\ reparsed = Undef
  /\ pc = "summarize"
  /\ ServerIdle
  /\ DiagramIdle
  /\ UploadIdle

\* const summary = generateInfraSummary(uploadResult.parsed)
Summarize ==
  /\ pc = "summarize"
  /\ summary' = generateInfraSummary(canonical)
  /\ pc' = "summarized"
  /\ UNCHANGED <<serverVars, diagramVars, uploadVars, canonical, exported, reparsed>>

\* exportAsJSON(summary, ...): the content handed to downloadTextFile
Export ==
  /\ pc = "summarized"
  /\ exported' = JsonStringify(summary)
  /\ pc' = "exported"
  /\ UNCHANGED <<serverVars, diagramVars, uploadVars, canonical, summary, reparsed>>

\* the downloaded text is parsed as JSON
Reparse ==
  /\ pc = "exported"
  /\ reparsed' = JsonParse(exported)
  /\ pc' = "reparsed"
  /\ UNCHANGED <<serverVars, diagramVars, uploadVars, canonical, summary, exported>>

SummaryNext == Summarize \/ Export \/ Reparse

SummarySpec == SummaryInit /\ [][SummaryNext]_vars

(***************************************************************************)
(* The upload component as a state machine: the user's events and the      *)
(* completion of the pending request, in any order the page allows.        *)
(***************************************************************************)
\* the files a user may choose or drop
Candidates ==
  {[name |-> "a.json", size |-> MaxSize],
   [name |-> "B.YAML", size |-> 1],
   [name |-> "d.tf", size |-> 0],
   [name |-> "big.json", size |-> MaxSize + 1],
   [name |-> "notes.txt", size |-> 1],
   [name |-> "Dockerfile", size |-> 1],
   [name |-> "big.txt", size |-> MaxSize + 1]}

Event(kind, f) == [kind |-> kind, file |-> f]

UploadInit ==
  /\ selectedFile = Null
  /\ uploadResult = Null
  /\ isLoading = FALSE
  /\ isDragOver = FALSE
  /\ inFlight = Null
  /\ sent = {}
  /\ handled = Null
  /\ pc = "page"
  /\ ServerIdle
  /\ DiagramIdle
  /\ SummaryIdle

\* part_004 42-53; the input is disabled while a request is pending (193)
FileChange(f) ==
  /\ ~isLoading
  /\ LET error == IF f = Null THEN Null ELSE validateFile(f)
     IN IF error # Null
          THEN /\ uploadResult' = ErrorResult(error.s, f)
               /\ UNCHANGED selectedFile
          ELSE /\ selectedFile' = f
               /\ uploadResult' = Null
  /\ handled' = Event("select", f)
  /\ UNCHANGED <<serverVars, diagramVars, summaryVars, pc, isLoading, isDragOver, inFlight, sent>>

\* part_004 56-59
DragOver ==
  /\ ~isDragOver
  /\ isDragOver' = TRUE
  /\ handled' = Event("dragover", Null)
  /\ UNCHANGED <<serverVars, diagramVars, summaryVars, pc, selectedFile, uploadResult, isLoading,
                 inFlight, sent>>

\* part_004 61-64
DragLeave ==
  /\ isDragOver
  /\ isDragOver' = FALSE
  /\ handled' = Event("dragleave", Null)
  /\ UNCHANGED <<serverVars, diagramVars, summaryVars, pc, selectedFile, uploadResult, isLoading,
                 inFlight, sent>>

\* part_004 66-80; the drop zone takes a file at any time (172-174)
Drop(f) ==
  /\ isDragOver' = FALSE
  /\ LET error == IF f = Null THEN Null ELSE validateFile(f)
     IN IF f = Null THEN UNCHANGED <<selectedFile, uploadResult>>
        ELSE IF error # Null
          THEN /\ uploadResult' = ErrorResult(error.s, f)
               /\ UNCHANGED selectedFile
          ELSE /\ selectedFile' = f
               /\ uploadResult' = Null
  /\ handled' = Event("drop", f)
  /\ UNCHANGED <<serverVars, diagramVars, summaryVars, pc, isLoading, inFlight, sent>>

\* part_004 82-94: the Analyze button, shown for a selected file and
\* disabled while a request is pending (204, 226)
Upload ==
  /\ selectedFile # Null
  /\ ~isLoading
  /\ isLoading' = TRUE
  /\ uploadResult' = Null
  /\ inFlight' = selectedFile
  /\ sent' = sent \cup {selectedFile}
  /\ handled' = Event("analyze", selectedFile)
  /\ UNCHANGED <<serverVars, diagramVars, summaryVars, pc, selectedFile, isDragOver>>

\* part_004 96-120: the request completes
Respond(outcome) ==
  /\ inFlight # Null
  /\ uploadResult' = ResultOf(outcome, inFlight)
  /\ isLoading' = FALSE
  /\ inFlight' = Null
  /\ handled' = Event("response", inFlight)
  /\ UNCHANGED <<serverVars, diagramVars, summaryVars, pc, selectedFile, isDragOver, sent>>

\* part_004 124-130: the Clear button, shown for a selected file and
\* disabled while a request is pending (204, 240)
ClearFile ==
  /\ selectedFile # Null
  /\ ~isLoading
  /\ selectedFile' = Null
  /\ uploadResult' = Null
  /\ handled' = Event("clear", Null)
  /\ UNCHANGED <<serverVars, diagramVars, summaryVars, pc, isLoading, isDragOver, inFlight, sent>>

UploadNext ==
  \/ \E f \in Candidates \cup {Null} : FileChange(f)
  \/ DragOver
  \/ DragLeave
  \/ \E f \in Candidates \cup {Null} : Drop(f)
  \/ Upload
  \/ \E outcome \in Outcomes : Respond(outcome)
  \/ ClearFile

UploadSpec == UploadInit /\ [][UploadNext]_vars

(***************************************************************************)
(* Properties of the normalizer                                            *)
(***************************************************************************)
Returned == pc \in {"done", "redone"} /\ result # Thrown

Section(k) == IF k \in DOMAIN result THEN result[k] ELSE <<>>

\* C1 (as claimed): after normalization every service name and every
\* database name is a non-empty string, on every extraction path.
C1_NamesNonEmpty ==
  Returned =>
    /\ \A i \in 1..Len(Section("services")) : result.services[i].name # ""
    /\ \A i \in 1..Len(Section("databases")) : result.databases[i].name # ""

\* C2: normalization never raises, and an undefined, null or scalar root
\* gives the empty canonical shape.
C2_Total ==
  pc = "done" =>
    /\ result # Thrown
    /\ (data.t \notin {"arr", "obj"} => result = EmptyResult)

C2_Witness ==
  /\ pc = "done"
  /\ data \in {Undef, Null, Num(5432), Str("bar")}
  /\ DOMAIN result = {}

\* an element of a sequence root that carries neither name nor id
Nameless(item) ==
  item.t # "obj" \/ \A i \in 1..Len(item.e) : item.e[i].k \notin {"name", "id"}

\* the string held under key k, "" when there is none
PlainString(item, k) ==
  IF item.t = "obj" /\ \E i \in 1..Len(item.e) : item.e[i].k = k /\ item.e[i].v.t = "str"
    THEN (CHOOSE e \in {item.e[i] : i \in 1..Len(item.e)} : e.k = k).v.s
    ELSE ""

\* C3: a sequence root of length n gives a services section of exactly n
\* entries, entry i taken from element i, each name non-empty and equal to
\* "Service i" (1-based) when element i has no name/id.
C3_ArrayRoot ==
  (pc = "done" /\ data.t = "arr") =>
    /\ "services" \in DOMAIN result
    /\ Len(result.services) = Len(data.a)
    /\ \A i \in 1..Len(data.a) :
         /\ result.services[i].name # ""
         /\ Nameless(data.a[i]) => result.services[i].name = "Service " \o ToString(i)
         /\ PlainString(data.a[i], "name") # ""
              => result.services[i].name = PlainString(data.a[i], "name")
         /\ PlainString(data.a[i], "runtime") # ""
              => result.services[i].runtime = PlainString(data.a[i], "runtime")

C3_Witness ==
  /\ pc = "done"
  /\ data.t = "arr"
  /\ Len(data.a) = MaxItems
  /\ Nameless(data.a[1])
  /\ PlainString(data.a[MaxItems], "name") = "api"
  /\ result.services[MaxItems].name = "api"

C3_WitnessEmpty ==
  pc = "done" /\ data = Arr(<<>>) /\ "services" \in DOMAIN result /\ result.services = <<>>

\* C4: when the `services` key of a mapping root holds a mapping, there is
\* exactly one service per entry, in entry order, named after the entry's key.
C4_KeyedServices ==
  (pc = "done" /\ data.t = "obj" /\ Get(data, "services").t = "obj") =>
    /\ "services" \in DOMAIN result
    /\ Len(result.services) = Len(Get(data, "services").e)
    /\ \A i \in 1..Len(result.services) :
         result.services[i].name = Get(data, "services").e[i].k

C4_Witness ==
  /\ pc = "done"
  /\ data.t = "obj"
  /\ Get(data, "services").t = "obj"
  /\ Len(Get(data, "services").e) = MaxItems
  /\ Len(result.services) = MaxItems
  /\ result.services[1].name = "db"
  /\ result.services[MaxItems].name = "web"

\* the first truthy value among the aliases of a section
RECURSIVE FirstTruthy(_, _)
FirstTruthy(root, aliases) ==
  IF Len(aliases) = 0 THEN Undef
  ELSE IF Truthy(Get(root, Head(aliases))) THEN Get(root, Head(aliases))
  ELSE FirstTruthy(root, Tail(aliases))

\* the sections a mapping root yields from its recognised keys
GivesServices(root) == FirstTruthy(root, <<"services", "applications", "apps">>).t \in {"arr", "obj"}
GivesDatabases(root) == FirstTruthy(root, <<"databases", "db", "data">>).t \in {"arr", "obj"}
GivesEnvironment(root) ==
  FirstTruthy(root, <<"environment", "env", "envVars", "variables">>).t = "obj"

\* the top-level entries whose value is a mapping
RECURSIVE MappingEntries(_)
MappingEntries(entries) ==
  IF Len(entries) = 0 THEN <<>>
  ELSE (IF Head(entries).v.t = "obj" THEN <<Head(entries)>> ELSE <<>>)
       \o MappingEntries(Tail(entries))

\* C5: for a mapping root the fallback runs exactly when no section was
\* produced; its services are the top-level keys holding a mapping, in key
\* order, typed "component" by default; with no such key nothing is present.
C5_Fallback ==
  (pc = "done" /\ data.t = "obj") =>
    IF ~GivesServices(data) /\ ~GivesDatabases(data) /\ ~GivesEnvironment(data)
      THEN LET m == MappingEntries(data.e)
           IN IF Len(m) = 0 THEN DOMAIN result = {}
              ELSE /\ DOMAIN result = {"services"}
                   /\ Len(result.services) = Len(m)
                   /\ \A i \in 1..Len(m) :
                        /\ result.services[i].name = m[i].k
                        /\ (Get(m[i].v, "type") = Undef /\ Get(m[i].v, "kind") = Undef)
                             => result.services[i].type = "component"
      ELSE /\ ("services" \in DOMAIN result) = GivesServices(data)
           /\ ("databases" \in DOMAIN result) = GivesDatabases(data)
           /\ ("environment" \in DOMAIN result) = GivesEnvironment(data)

C5_Witness ==
  /\ pc = "done"
  /\ data.t = "obj"
  /\ Get(data, "services") = Str("bar")
  /\ Get(data, "foo").t = "obj"
  /\ DOMAIN result = {"services"}
  /\ result.services[1].name = "foo"

C5_WitnessNone ==
  pc = "done" /\ data = Obj(<<Ent("foo", Str("bar"))>>) /\ DOMAIN result = {}

C5_WitnessSkipped ==
  /\ pc = "done"
  /\ data.t = "obj"
  /\ Get(data, "foo").t = "obj"
  /\ DOMAIN result = {"databases"}

\* the string an environment value becomes
EnvString(v) ==
  CASE v.t = "str" -> v.s
    [] v.t = "num" -> ToString(v.n)
    [] v.t = "bool" -> IF v.b THEN "true" ELSE "false"
    [] OTHER -> ""

\* C6: an environment section in the result was taken from a mapping under
\* one of environment/env/envVars/variables, and each of its values is the
\* source string, the stringified number or boolean, or "" for null,
\* sequences and mappings.
C6_Environment ==
  (pc = "done" /\ data.t = "obj" /\ "environment" \in DOMAIN result) =>
    \E k \in {"environment", "env", "envVars", "variables"} :
      LET src == Get(data, k)
      IN /\ src.t = "obj"
         /\ Len(result.environment) = Len(src.e)
         /\ \A i \in 1..Len(src.e) :
              /\ result.environment[i].k = src.e[i].k
              /\ result.environment[i].v = EnvString(src.e[i].v)

C6_Witness ==
  /\ pc = "done"
  /\ data.t = "obj"
  /\ Get(data, "environment").t = "arr"
  /\ Get(data, "env").t = "obj"
  /\ "environment" \notin DOMAIN result

C6_WitnessValues ==
  /\ pc = "done"
  /\ "environment" \in DOMAIN result
  /\ Len(result.environment) = 6
  /\ result.environment[1] = Ent("PORT", "5432")
  /\ result.environment[2] = Ent("DEBUG", "true")
  /\ result.environment[5] = Ent("LIST", "")

ScenarioShape(serviceType) ==
  /\ DOMAIN result = {"services", "databases"}
  /\ Len(result.services) = 1
  /\ result.services[1].name = "api"
  /\ result.services[1].runtime = "node:18"
  /\ result.services[1].type = serviceType
  /\ Len(result.databases) = 1
  /\ result.databases[1].name = "Unknown Database"
  /\ result.databases[1].type = "postgres"
  /\ result.databases[1].port = Num(5432)

\* C7 (as claimed): the scenario yields one service api / node:18 of type
\* "unknown" and one database "Unknown Database" / postgres / port 5432.
C7_ScenarioUnknown == (pc = "done" /\ data = Scenario) => ScenarioShape("unknown")

\* C7 (amended): as claimed, except that the service type is "service".
C7_ScenarioService == (pc = "done" /\ data = Scenario) => ScenarioShape("service")

C7_Witness == pc = "done" /\ data = Scenario /\ result.databases[1].port = Num(5432)

\* C8 (as claimed): normalizing a canonical value again returns the same
\* services, databases and environment.
C8_Idempotent == (pc = "redone") => result = prev

\* every name of the first result is non-empty
AllNamed(r) ==
  /\ \A i \in 1..Len(IF "services" \in DOMAIN r THEN r.services ELSE <<>>) :
       r.services[i].name # ""
  /\ \A i \in 1..Len(IF "databases" \in DOMAIN r THEN r.databases ELSE <<>>) :
       r.databases[i].name # ""

\* The second normalization differs from the first only through an empty name.
IdempotentWhenNamed == (pc = "redone" /\ AllNamed(prev)) => result = prev

(***************************************************************************)
(* Properties of the parse endpoint                                        *)
(***************************************************************************)
Responded == pc = "responded" /\ file # NoFile /\ response # Thrown

\* C9: verdict json, JSON fails, YAML decodes: the response carries the YAML
\* tree as rawParsed, its normalization as parsed, type yaml and no parse
\* error; and the mirror image for verdict yaml with a JSON success.
C9_DecoderFallback ==
  Responded =>
    LET detected == detectContentType(file.content, file.name)
    IN /\ (detected = "json" /\ ~jsonOutcome.success /\ yamlOutcome.success) =>
            /\ response.rawParsed = yamlOutcome.data
            /\ response.parsed = normalizeToInfraData(yamlOutcome.data)
            /\ response.type = "yaml"
            /\ response.parseError = Null
       /\ (detected = "yaml" /\ ~yamlOutcome.success /\ jsonOutcome.success) =>
            /\ response.rawParsed = jsonOutcome.data
            /\ response.parsed = normalizeToInfraData(jsonOutcome.data)
            /\ response.type = "json"
            /\ response.parseError = Null

C9_Witness ==
  /\ Responded
  /\ file.name = "config.json"
  /\ file.content = "key: value"
  /\ ~jsonOutcome.success
  /\ yamlOutcome = Decoded(Obj(<<Ent("key", Str("value"))>>))
  /\ response.type = "yaml"
  /\ response.rawParsed = Obj(<<Ent("key", Str("value"))>>)

C9_WitnessYaml ==
  /\ Responded
  /\ file.name = "app.yml"
  /\ ~yamlOutcome.success
  /\ jsonOutcome.success
  /\ response.type = "json"

\* C10: parseError is set exactly when both decoders failed; then parsed is
\* null, rawParsed is absent, the error text contains both parser messages,
\* and name, size and the 500-character preview are still there.
C10_DecodeFailure ==
  Responded =>
    /\ (response.parseError # Null) = (~jsonOutcome.success /\ ~yamlOutcome.success)
    /\ response.parseError # Null =>
         /\ response.parsed = Null
         /\ response.rawParsed = Undef
         /\ Includes(response.parseError.s, jsonOutcome.error)
         /\ Includes(response.parseError.s, yamlOutcome.error)
    /\ response.name = file.name
    /\ response.size = file.size
    /\ Len(response.preview) = (IF Len(file.content) < 500 THEN Len(file.content) ELSE 500)
    /\ StartsWith(file.content, response.preview)

C10_Witness ==
  /\ Responded
  /\ ~jsonOutcome.success
  /\ ~yamlOutcome.success
  /\ Len(file.content) > 500
  /\ Len(response.preview) = 500
  /\ response.parseError # Null

\* C11: verdict unknown: a JSON success wins (type json) even when YAML also
\* decodes; the YAML tree (type yaml) is used only when JSON failed; when
\* both fail the type stays unknown and one error carries both messages.
C11_UnknownVerdict ==
  (Responded /\ detectContentType(file.content, file.name) = "unknown") =>
    /\ jsonOutcome.success =>
         /\ response.rawParsed = jsonOutcome.data
         /\ response.type = "json"
         /\ response.parseError = Null
    /\ (~jsonOutcome.success /\ yamlOutcome.success) =>
         /\ response.rawParsed = yamlOutcome.data
         /\ response.type = "yaml"
         /\ response.parseError = Null
    /\ (~jsonOutcome.success /\ ~yamlOutcome.success) =>
         /\ response.type = "unknown"
         /\ response.parseError # Null
         /\ Includes(response.parseError.s, jsonOutcome.error)
         /\ Includes(response.parseError.s, yamlOutcome.error)

C11_Witness ==
  /\ Responded
  /\ file.name = "notes.txt"
  /\ file.content = "plain text"
  /\ jsonOutcome = Decoded(Num(0))
  /\ yamlOutcome = Decoded(Str("plain text"))
  /\ response.type = "json"
  /\ response.rawParsed = Num(0)

(***************************************************************************)
(* Properties of the content classifier                                    *)
(***************************************************************************)
\* the extension the file name carries, compared without regard to case
RECURSIVE SameLetters(_, _)
SameLetters(a, b) ==
  IF Len(a) # Len(b) THEN FALSE
  ELSE IF Len(a) = 0 THEN TRUE
  ELSE /\ LowerChar(Char(a, 1)) = LowerChar(Char(b, 1))
       /\ SameLetters(SubSeq(a, 2, Len(a)), SubSeq(b, 2, Len(b)))

HasExtension(name, ext) ==
  Len(name) >= Len(ext) /\ SameLetters(SubSeq(name, Len(name) - Len(ext) + 1, Len(name)), ext)

Stripped(s) ==
  LET ink == {i \in 1..Len(s) : Char(s, i) \notin WhiteSpace}
  IN IF ink = {} THEN ""
     ELSE SubSeq(s, CHOOSE i \in ink : \A j \in ink : i <= j,
                    CHOOSE i \in ink : \A j \in ink : i >= j)

Enclosed(s, open, close) == Len(s) >= 1 /\ Char(s, 1) = open /\ Char(s, Len(s)) = close

\* an identifier, a colon and white space at the head of s
RECURSIVE KeyHead(_, _)
KeyHead(s, i) ==
  IF i + 1 > Len(s) THEN FALSE
  ELSE IF Char(s, i) = ":" THEN i > 1 /\ Char(s, i + 1) \in WhiteSpace
  ELSE IF IsLetter(Char(s, i)) \/ Char(s, i) = "_" \/ (i > 1 /\ Char(s, i) \in DigitChars)
    THEN KeyHead(s, i + 1)
  ELSE FALSE

ItemHead(s) == Len(s) >= 2 /\ Char(s, 1) = "-" /\ Char(s, 2) \in WhiteSpace

\* C13: without a recognised extension the trimmed content decides: enclosed
\* in {} or [] gives json; otherwise a --- separator, a leading `key: ` or a
\* leading `- ` gives yaml; everything else unknown.  The verdict is always
\* one of the three.
C13_ContentSniffing ==
  pc = "detected" =>
    /\ verdict \in {"json", "yaml", "unknown"}
    /\ ~(HasExtension(filename, ".json") \/ HasExtension(filename, ".yaml")
         \/ HasExtension(filename, ".yml")) =>
         LET t == Stripped(content)
         IN verdict =
              IF Enclosed(t, "{", "}") \/ Enclosed(t, "[", "]") THEN "json"
              ELSE IF (\E i \in 1..(Len(t) - 2) : SubSeq(t, i, i + 2) = "---")
                      \/ KeyHead(t, 1) \/ ItemHead(t) THEN "yaml"
              ELSE "unknown"

C13_Witness ==
  /\ pc = "detected"
  /\ filename = "notes.txt"
  /\ content = " []"
  /\ verdict = "json"

C13_WitnessYaml == pc = "detected" /\ filename = "json" /\ content = "k: 9" /\ verdict = "yaml"

C13_WitnessUnknown == pc = "detected" /\ filename = "x.yml.bak" /\ content = "k:9" /\ verdict = "unknown"

(***************************************************************************)
(* Properties of the structure classifier                                  *)
(***************************************************************************)
Classified == pc \in {"validated", "revalidated"} /\ isObjectContent(tree)

Reported(text) == \E i \in 1..Len(validation.suggestions) : validation.suggestions[i] = text

Weight(text, n) == IF Reported(text) THEN n ELSE 0

\* the score of the rules that reported a match
ReportedScore ==
  Weight("Kubernetes manifest detected - extracting container and service information", 3)
  + Weight("Docker Compose file detected - excellent structure for multi-service applications", 3)
  + Weight("Terraform configuration detected - extracting infrastructure resources", 2)
  + Weight("Service definitions found - structure looks good", 2)
  + Weight("Database configurations detected", 1)
  + Weight("Environment variables found", 1)

\* C14: every mapping is valid, and its confidence follows the accumulated
\* score (Kubernetes 3, Docker Compose 3, Terraform 2, services 2, databases
\* 1, configuration 1): high from 3 up, medium for 1 and 2, low for 0.
C14_ConfidenceByScore ==
  Classified =>
    /\ validation.isValid = TRUE
    /\ matches = ReportedScore
    /\ validation.confidence = "high" <=> matches >= 3
    /\ validation.confidence = "medium" <=> matches \in {1, 2}
    /\ validation.confidence = "low" <=> matches = 0

C14_Witness ==
  /\ pc = "validated"
  /\ tree = Obj(<<Ent("apps", Str("v")), Ent("databases", Str("v"))>>)
  /\ matches = 3
  /\ validation.confidence = "high"

C14_WitnessMedium == pc = "validated" /\ isObjectContent(tree) /\ matches = 1 /\ validation.confidence = "medium"

C14_WitnessLow == pc = "validated" /\ tree = LargeTree /\ validation.confidence = "low"

\* the named formats among the rules that reported a match
NamedFormats ==
  When(Reported("Kubernetes manifest detected - extracting container and service information"), "Kubernetes")
  \o When(Reported("Docker Compose file detected - excellent structure for multi-service applications"), "Docker Compose")
  \o When(Reported("Terraform configuration detected - extracting infrastructure resources"), "Terraform")

\* C15: detectedFormat is the " + "-join of the matched named formats when
\* there is one, otherwise "Generic Config" for a score of 1 or more and
\* "Unknown Format" for a score of 0; it is never the empty string.
C15_FormatLabel ==
  Classified =>
    /\ validation.detectedFormat # ""
    /\ validation.detectedFormat =
         IF Len(NamedFormats) > 0 THEN Join(NamedFormats, " + ")
         ELSE IF matches >= 1 THEN "Generic Config"
         ELSE "Unknown Format"

HasKey(obj, key) == \E i \in 1..Len(obj.e) : obj.e[i].k = key

\* C16: the Docker Compose rule matches every mapping that has a services
\* key (itself one of version, services, volumes, networks), whatever value
\* the key holds.
C16_ComposeByKey ==
  (Classified /\ HasKey(tree, "services")) =>
    /\ Reported("Docker Compose file detected - excellent structure for multi-service applications")
    /\ matches >= 3

Rank(confidence) == CASE confidence = "low" -> 0 [] confidence = "medium" -> 1 [] confidence = "high" -> 2

\* C17: adding one or more of apiVersion, kind, metadata, spec to a mapping
\* never lowers the score and never lowers the confidence.
C17_ManifestKeysMonotone ==
  pc = "revalidated" =>
    /\ matches >= prevMatches
    /\ Rank(validation.confidence) >= Rank(prevValidation.confidence)

C17_Witness ==
  /\ pc = "revalidated"
  /\ HasKey(tree, "metadata")
  /\ prevMatches = 8
  /\ matches = 11
  /\ prevValidation.confidence = "high"

C17_WitnessRaised ==
  /\ pc = "revalidated"
  /\ prevValidation.confidence = "low"
  /\ validation.confidence = "high"

C17_WitnessUnchanged == pc = "revalidated" /\ prevMatches = 3 /\ matches = 3 /\ HasKey(tree, "kind")

(***************************************************************************)
(* Properties of the endpoint: the classifier's result in the response     *)
(***************************************************************************)
IsNote(text) == StartsWith(text, "Note: File parsed as")

\* C18: the classifier's result is not changed after the classifier returns:
\* validation.suggestions is the list the classifier produced, and the
\* "parsed as ... despite ... extension" note is in the top-level suggestions
\* only.
C18_ValidationUntouched ==
  (Responded /\ response.validation # Null) =>
    /\ response.validation = validateInfraStructure(response.rawParsed)
    /\ \A i \in 1..Len(response.validation.suggestions) :
         ~IsNote(response.validation.suggestions[i])

\* the trees the decoders produced for the upload
DecodedNow == {o.data : o \in {x \in {jsonOutcome, yamlOutcome} : x.success}}

\* C19: when the classifier raises on a decoded tree the request still
\* answers, with validation null, rawParsed the decoded tree and parsed its
\* normalization.
C19_ClassifierFailureTolerated ==
  (pc = "responded" /\ file # NoFile /\ validatorThrows /\ DecodedNow # {}) =>
    /\ response # Thrown
    /\ response.status = 200
    /\ response.validation = Null
    /\ response.rawParsed \in DecodedNow
    /\ response.parsed = normalizeToInfraData(response.rawParsed)

C19_Witness ==
  /\ Responded
  /\ validatorThrows
  /\ file.name = "config.json"
  /\ jsonOutcome = Decoded(Scenario)
  /\ response.validation = Null
  /\ response.rawParsed = Scenario
  /\ response.parsed = normalizeToInfraData(Scenario)

C19_WitnessFallback ==
  /\ Responded
  /\ validatorThrows
  /\ file.name = "config.json"
  /\ ~jsonOutcome.success
  /\ yamlOutcome = Decoded(Scenario)
  /\ response.validation = Null
  /\ Len(response.suggestions) = 1

(***************************************************************************)
(* Properties of the metadata extractor                                    *)
(***************************************************************************)
Composite(v) == v.t \in {"arr", "obj"}

\* the values directly under a root
ChildrenOf(root) ==
  IF root.t = "arr" THEN {root.a[i] : i \in 1..Len(root.a)}
  ELSE {root.e[i].v : i \in 1..Len(root.e)}

\* C20: hasNestedStructures is true exactly when a sequence or a mapping
\* occurs below the root, and false when every value directly under the root
\* is a scalar.
C20_NestedFlag ==
  (pc = "extracted" /\ Composite(config)) =>
    (metadata.hasNestedStructures <=> \E child \in ChildrenOf(config) : Composite(child))

\* the flag as the code sets it: a mapping below the root
NestedFlagForMappings ==
  (pc = "extracted" /\ Composite(config)) =>
    /\ (\E child \in ChildrenOf(config) : child.t = "obj") => metadata.hasNestedStructures
    /\ (\A child \in ChildrenOf(config) : ~Composite(child)) => ~metadata.hasNestedStructures

\* the nodes of a tree, the root included
RECURSIVE NodeCount(_)
NodeCount(v) ==
  IF v.t = "arr" THEN 1 + Sum([i \in 1..Len(v.a) |-> NodeCount(v.a[i])])
  ELSE IF v.t = "obj" THEN 1 + Sum([i \in 1..Len(v.e) |-> NodeCount(v.e[i].v)])
  ELSE 1

\* C21: the total is the sequence lengths plus the mapping key counts over
\* all depths (one per node below the root); complexity is complex when
\* total > 50 or (nested and total > 20), otherwise moderate when total > 15
\* or nested, otherwise simple.
C21_ComplexityBuckets ==
  (pc = "extracted" /\ Composite(config)) =>
    LET total == metadata.totalProperties
        nested == metadata.hasNestedStructures
    IN /\ total = NodeCount(config) - 1
       /\ metadata.estimatedComplexity = "complex" <=> (total > 50 \/ (nested /\ total > 20))
       /\ metadata.estimatedComplexity = "moderate" <=>
            (~(total > 50 \/ (nested /\ total > 20)) /\ (total > 15 \/ nested))
       /\ metadata.estimatedComplexity = "simple" <=>
            (~(total > 50 \/ (nested /\ total > 20)) /\ ~(total > 15 \/ nested))

C21_Witness ==
  /\ pc = "extracted"
  /\ config = DeepTree(21)
  /\ metadata.totalProperties = 21
  /\ metadata.hasNestedStructures
  /\ metadata.estimatedComplexity = "complex"

C21_WitnessFlat ==
  /\ pc = "extracted"
  /\ config = FlatTree(50)
  /\ metadata.estimatedComplexity = "moderate"

C21_WitnessSimple ==
  /\ pc = "extracted"
  /\ config = FlatTree(15)
  /\ metadata.estimatedComplexity = "simple"

(***************************************************************************)
(* Properties of the diagram builder                                       *)
(***************************************************************************)
HasLine(text) == \E i \in 1..Len(lines) : lines[i] = text

\* the position of the arrow in an edge line, 0 in any other line
ArrowAt(line) ==
  LET at == {i \in 1..Len(line) : i + 4 <= Len(line) /\ SubSeq(line, i, i + 4) = " --> "}
  IN IF at = {} THEN 0 ELSE CHOOSE i \in at : \A j \in at : i <= j

EdgeSource(line) == SubSeq(line, 3, ArrowAt(line) - 1)
EdgeTarget(line) == SubSeq(line, ArrowAt(line) + 5, Len(line))

\* a node line opens with the node's id and a bracket
Declared(id) == \E i \in 1..Len(lines) : ArrowAt(lines[i]) = 0 /\ StartsWith(lines[i], "  " \o id \o "[")

NodeLines == {i \in 2..Len(lines) : ArrowAt(lines[i]) = 0}

\* C22: the environment node and the edge to it are emitted exactly when the
\* environment is present and not empty.
C22_EnvironmentNode ==
  pc = "drawn" =>
    LET nonEmpty == "environment" \in DOMAIN infra /\ Len(infra.environment) > 0
    IN /\ HasLine("  env[/\"Env Vars\"/]") <=> nonEmpty
       /\ HasLine("  svc0 --> env") <=> nonEmpty

\* C23: with no services, no databases and no environment the diagram holds
\* one node, the placeholder.
C23_Placeholder ==
  (pc = "drawn" /\ DOMAIN infra = {}) =>
    /\ Cardinality(NodeLines) = 1
    /\ Len(lines) = 2

\* C28: each edge connects two nodes declared in the same diagram.
C28_EdgesDeclared ==
  pc = "drawn" =>
    \A i \in 1..Len(lines) :
      ArrowAt(lines[i]) > 0 => Declared(EdgeSource(lines[i])) /\ Declared(EdgeTarget(lines[i]))

\* the edges to the databases are guarded by the first service
DatabaseEdgesDeclared ==
  pc = "drawn" =>
    \A i \in 1..Len(lines) :
      (ArrowAt(lines[i]) > 0 /\ EdgeTarget(lines[i]) # "env") =>
        Declared(EdgeSource(lines[i])) /\ Declared(EdgeTarget(lines[i]))

(***************************************************************************)
(* Properties of the summary export                                        *)
(***************************************************************************)
ServicesOf(value) ==
  IF "services" \in DOMAIN value THEN Len(value.services) ELSE 0

\* C24: the summary's services field is the number of entries of
\* canonical.services (0 when the section is absent), and it still is after
\* the summary was written as JSON and parsed back.
C24_ServicesRoundTrip ==
  /\ pc \in {"summarized", "exported", "reparsed"} =>
       Get(summary, "services") = Num(ServicesOf(canonical))
  /\ pc = "reparsed" =>
       /\ reparsed # Thrown
       /\ Get(reparsed, "services") = Num(ServicesOf(canonical))

C24_Witness ==
  /\ pc = "reparsed"
  /\ ServicesOf(canonical) = 2
  /\ Get(reparsed, "services") = Num(2)
  /\ Len(Get(Get(reparsed, "details"), "serviceTypes").a) > 0

C24_WitnessAbsent ==
  /\ pc = "reparsed"
  /\ "services" \notin DOMAIN canonical
  /\ Get(reparsed, "services") = Num(0)

\* the whole summary survives the round trip
SummaryRoundTrip == pc = "reparsed" => reparsed = summary

(***************************************************************************)
(* Properties of the upload component                                      *)
(***************************************************************************)
TooLarge(f) == f.size > 10 * 1024 * 1024

Extension(name) ==
  IF \E i \in 1..Len(name) : Char(name, i) = "."
    THEN LET dot == CHOOSE i \in 1..Len(name) :
                      Char(name, i) = "." /\ \A j \in (i + 1)..Len(name) : Char(name, j) # "."
         IN ToLowerCase(SubSeq(name, dot, Len(name)))
    ELSE ""

Unsupported(f) ==
  Extension(f.name) \notin {SupportedExtensions[i] : i \in 1..Len(SupportedExtensions)}

Refused(f) == TooLarge(f) \/ Unsupported(f)

ValidationMessages == {SizeMessage, TypeMessage}

\* C25: a file over 10MB or with an unsupported extension is never posted;
\* choosing or dropping it leaves an error result that names the file and
\* carries the message of its defect, and the file is not the selected one.
C25_RefusedNeverSent ==
  /\ \A f \in sent : ~Refused(f)
  /\ \A f \in Candidates : Refused(f) => selectedFile # f /\ inFlight # f
  /\ (handled # Null /\ handled.kind \in {"select", "drop"} /\ handled.file # Null
        /\ Refused(handled.file)) =>
       /\ uploadResult # Null
       /\ uploadResult.name = handled.file.name
       /\ uploadResult.size = handled.file.size
       /\ uploadResult.error =
            (IF TooLarge(handled.file) THEN SizeMessage ELSE TypeMessage)

C25_Witness ==
  /\ handled = Event("drop", [name |-> "big.json", size |-> MaxSize + 1])
  /\ uploadResult # Null /\ uploadResult.error = SizeMessage
  /\ selectedFile = [name |-> "a.json", size |-> MaxSize]
  /\ selectedFile \in sent

C25_WitnessExtension ==
  /\ handled = Event("select", [name |-> "Dockerfile", size |-> 1])
  /\ uploadResult # Null /\ uploadResult.error = TypeMessage
  /\ sent # {}

\* a result that came from the request, not from the validation of a file
FromServer(r) == r # Null /\ r.error \notin ValidationMessages

\* C29: a displayed result of a request is the result for the file that is
\* selected now.
C29_ResultOfSelected ==
  FromServer(uploadResult) =>
    /\ selectedFile # Null
    /\ uploadResult.name = selectedFile.name
    /\ uploadResult.size = selectedFile.size

\* the selection changes under a pending request only by a drop
PendingSelection ==
  [][(isLoading /\ selectedFile' # selectedFile) => handled'.kind = "drop"]_vars

(***************************************************************************)
(* Properties of the field aliases and of the port                         *)
(***************************************************************************)
\* the canonical service fields, their aliases in order, and whether an
\* empty string is replaced by a default
ServiceAliases ==
  {[field |-> "name", aliases |-> <<"name", "id">>, defaulted |-> TRUE],
   [field |-> "type", aliases |-> <<"type", "kind">>, defaulted |-> TRUE],
   [field |-> "runtime", aliases |-> <<"runtime", "image", "version">>, defaulted |-> FALSE],
   [field |-> "buildCommand", aliases |-> <<"buildCommand", "build">>, defaulted |-> FALSE],
   [field |-> "startCommand", aliases |-> <<"startCommand", "command", "cmd">>,
    defaulted |-> FALSE],
   [field |-> "rootDir", aliases |-> <<"rootDir", "workingDir", "path">>, defaulted |-> FALSE]}

Present(item, k) == \E i \in 1..Len(item.e) : item.e[i].k = k

\* the first alias that is a key of the item; "" when none is
FirstPresent(item, aliases) ==
  IF \E i \in 1..Len(aliases) : Present(item, aliases[i])
    THEN aliases[CHOOSE i \in 1..Len(aliases) :
                   Present(item, aliases[i]) /\ \A j \in 1..(i - 1) : ~Present(item, aliases[j])]
    ELSE ""

Scalar(v) == v.t \in {"str", "num", "bool"}

StringForm(v) ==
  CASE v.t = "str" -> v.s
    [] v.t = "num" -> ToString(v.n)
    [] v.t = "bool" -> IF v.b THEN "true" ELSE "false"

ListsServices == pc = "done" /\ data.t = "obj" /\ Get(data, "services").t = "arr" /\ result # Thrown

\* the field of listed service i comes from the first present alias
FromFirstPresent(i, a, falsyToo) ==
  LET item == Get(data, "services").a[i]
      first == FirstPresent(item, a.aliases)
  IN (/\ item.t = "obj"
      /\ first # ""
      /\ Scalar(Get(item, first))
      /\ falsyToo \/ Truthy(Get(item, first))
      /\ ~a.defaulted \/ StringForm(Get(item, first)) # "")
     => result.services[i][a.field] = StringForm(Get(item, first))

\* C26: each canonical service field is the string form of the first alias
\* that is present with a string, number or boolean, 0, false and "" included;
\* later aliases are not consulted.
C26_FirstPresentAlias ==
  ListsServices =>
    \A i \in 1..Len(Get(data, "services").a) : \A a \in ServiceAliases :
      FromFirstPresent(i, a, TRUE)

\* the same for a first present alias whose value is truthy
FirstPresentWhenTruthy ==
  ListsServices =>
    \A i \in 1..Len(Get(data, "services").a) : \A a \in ServiceAliases :
      FromFirstPresent(i, a, FALSE)

\* a string of digits with an optional sign, blanks around it allowed
NumericString(str) ==
  LET u == Trim(str)
      body == IF Len(u) > 0 /\ Char(u, 1) \in {"+", "-"} THEN SubSeq(u, 2, Len(u)) ELSE u
  IN Len(body) > 0 /\ \A i \in 1..Len(body) : Char(body, i) \in DigitChars

NumericValue(str) ==
  LET u == Trim(str)
  IN IF Char(u, 1) = "-" THEN 0 - DigitsVal(SubSeq(u, 2, Len(u)))
     ELSE IF Char(u, 1) = "+" THEN DigitsVal(SubSeq(u, 2, Len(u)))
     ELSE DigitsVal(u)

\* the database-like mappings of the root, in order
DatabaseSources ==
  LET section == JsOr(JsOr(Get(data, "databases"), Get(data, "db")), Get(data, "data"))
  IN IF section.t = "arr" THEN section.a
     ELSE IF section.t = "obj" THEN [i \in 1..Len(section.e) |-> section.e[i].v]
     ELSE <<>>

PortAsClaimed(i, blankToo) ==
  LET item == DatabaseSources[i]
      port == Get(item, "port")
  IN item.t = "obj" =>
       IF port.t = "num" THEN result.databases[i].port = port
       ELSE IF port.t = "str" /\ NumericString(port.s)
         THEN result.databases[i].port = Num(NumericValue(port.s))
       ELSE IF port.t = "str" /\ Trim(port.s) = "" /\ ~blankToo THEN TRUE
       ELSE result.databases[i].port = Undef

\* C27: the canonical port is the source port when that is a number, the
\* number a numeric string denotes, and absent for everything else, the
\* empty and the blank string included.
C27_PortNumberOrAbsent ==
  (pc = "done" /\ data.t = "obj" /\ result # Thrown /\ "databases" \in DOMAIN result) =>
    /\ Len(result.databases) = Len(DatabaseSources)
    /\ \A i \in 1..Len(DatabaseSources) : PortAsClaimed(i, TRUE)

\* the same with the empty and the blank string left open
PortOfNonBlankSources ==
  (pc = "done" /\ data.t = "obj" /\ result # Thrown /\ "databases" \in DOMAIN result) =>
    /\ Len(result.databases) = Len(DatabaseSources)
    /\ \A i \in 1..Len(DatabaseSources) : PortAsClaimed(i, FALSE)

(***************************************************************************)
(* The quick classifier against the full one                               *)
(***************************************************************************)
\* C30: the quick validator gives the same isValid as the full validator
\* and never a higher confidence.
C30_QuickBelowFull ==
  pc = "compared" =>
    /\ quick.isValid = validation.isValid
    /\ Rank(quick.confidence) <= Rank(validation.confidence)

\* the two agree on isValid
QuickSameValidity == pc = "compared" => quick.isValid = validation.isValid

\* the quick confidence is above the full one only for a mapping whose
\* services key holds a falsy value
QuickAboveOnlyForFalsyServices ==
  (pc = "compared" /\ Rank(quick.confidence) > Rank(validation.confidence)) =>
    /\ HasKey(tree, "services")
    /\ ~Truthy(Get(tree, "services"))

====
